---- MODULE Spec2Model ----
(***************************************************************************)
(* CV Snap: the skill graph kept by Neo4jService (backend/neo4j_service.py)*)
(* and the match scoring computed from it.                                 *)
(*                                                                         *)
(* The graph is a property graph.  Nodes of one label are kept in creation *)
(* order (the position of a node is its identity, as Neo4j's internal id   *)
(* is); relationships of one type are a bag of records naming the          *)
(* positions of their two end nodes.  Attributes no query of the service   *)
(* reads back (title, company, e-mail, category, created_at, ...) are left *)
(* out; created_at survives as the creation order of the nodes.            *)
(***************************************************************************)
EXTENDS Integers, Sequences, FiniteSets, Bags, TLC

VARIABLES
    graph,      \* the nodes and relationships in the store
    result,     \* the last scoring call: its arguments and what it returned
    supplied,   \* history: the <<skill name, level>> pairs sent to the store
    links,      \* history: per linked pair of nodes, the last properties sent
    pc          \* per concurrent caller, where it stands in its own code

vars == <<graph, result, supplied, links, pc>>

(***************************************************************************)
(* Bounds of the model.                                                    *)
(***************************************************************************)
MaxNodes == 3
MaxBatch == 1

(***************************************************************************)
(* Python dictionaries are records; d.get(k, default) is Get.              *)
(***************************************************************************)
Get(d, k, default) == IF k \in DOMAIN d THEN d[k] ELSE default

(***************************************************************************)
(* Skill names are strings, modelled as sequences of one-character         *)
(* strings so that lower() and strip() are computed, not assumed.          *)
(***************************************************************************)
Lower(ch) ==
    CASE ch = "P" -> "p"
      [] ch = "Y" -> "y"
      [] ch = "G" -> "g"
      [] ch = "O" -> "o"
      [] ch = "L" -> "l"
      [] ch = "E" -> "e"
      [] ch = "A" -> "a"
      [] ch = "D" -> "d"
      [] OTHER -> ch

LowerStr(s) == [i \in 1..Len(s) |-> Lower(s[i])]

IsSpace(ch) == ch = " "

RECURSIVE LStrip(_)
LStrip(s) == IF s # <<>> /\ IsSpace(Head(s)) THEN LStrip(Tail(s)) ELSE s

RECURSIVE RStrip(_)
RStrip(s) ==
    IF s # <<>> /\ IsSpace(s[Len(s)]) THEN RStrip(SubSeq(s, 1, Len(s) - 1)) ELSE s

Strip(s) == RStrip(LStrip(s))

\* The name trimmed but left in the case it came in.
NormalizeNameKeepsCase(skill) == Strip(Get(skill, "name", <<>>))

\* skill.get('name', '').lower().strip()
NormalizeName(skill) == Strip(LowerStr(Get(skill, "name", <<>>)))

(***************************************************************************)
(* The graph.                                                              *)
(***************************************************************************)
EmptyGraph ==
    [jobs          |-> <<>>,
     cands         |-> <<>>,
     skills        |-> <<>>,
     exps          |-> <<>>,
     hasSkill      |-> EmptyBag,
     requiresSkill |-> EmptyBag,
     hasExperience |-> EmptyBag]

\* MATCH (n) DETACH DELETE n
\* MATCH (c:Candidate) DETACH DELETE c: the candidates go, with their
\* relationships, and nothing else.
ClearDatabaseOfCandidates(g) ==
    [g EXCEPT !.cands = <<>>, !.hasSkill = EmptyBag,
              !.hasExperience = EmptyBag]

ClearDatabase(g) == EmptyGraph

\* MATCH (c:Candidate {id: $candidate_id}), MATCH (j:Job {id: $job_id}),
\* MATCH (s:Skill {name: $skill_name}): the positions of the matching nodes.
MatchCandidate(g, candidate_id) ==
    {c \in 1..Len(g.cands) : g.cands[c].id = candidate_id}

MatchJob(g, job_id) == {j \in 1..Len(g.jobs) : g.jobs[j].id = job_id}

MatchSkill(g, skill_name) ==
    {s \in 1..Len(g.skills) : g.skills[s].name = skill_name}

\* CREATE (j:Job {id: $job_id, ...}) RETURN j.id
CreateJobNode(g, job_data) ==
    [graph |-> [g EXCEPT !.jobs = Append(@, [id |-> Get(job_data, "id", "null")])],
     ret   |-> Get(job_data, "id", "null")]

\* CREATE (c:Candidate {id: $candidate_id, total_years_experience: ...}) RETURN c.id
CreateCandidateNode(g, candidate_data) ==
    [graph |-> [g EXCEPT !.cands =
                   Append(@, [id |-> Get(candidate_data, "id", "null"),
                              total_years_experience |->
                                  Get(candidate_data, "total_years_experience", 0)])],
     ret   |-> Get(candidate_data, "id", "null")]

\* level = skill.get('level', skill.get('proficiency', 1))
SkillLevel(skill) == Get(skill, "level", Get(skill, "proficiency", 1))

\* ON MATCH SET s.level = $level: the last level wins.
OnMatchLevelOverwrites(level, stored) == level

\* ON MATCH SET s.level = CASE WHEN $level > s.level THEN $level ELSE s.level END
OnMatchLevel(level, stored) == IF level > stored THEN level ELSE stored

\* MERGE (s:Skill {name: $skill_name}) ON CREATE SET ... ON MATCH SET ...
MergeSkill(g, skill_name, level) ==
    IF MatchSkill(g, skill_name) = {}
    THEN [g EXCEPT !.skills = Append(@, [name |-> skill_name, level |-> level])]
    ELSE [g EXCEPT !.skills =
             [s \in 1..Len(@) |->
                 IF @[s].name = skill_name
                 THEN [@[s] EXCEPT !.level = OnMatchLevel(level, @)]
                 ELSE @[s]]]

\* The loop of create_skill_nodes with the try around the loop, not in it:
\* the first entry whose session.run raises ends the loop.
RECURSIVE CreateSkillLoopEndsAtError(_, _, _, _, _)
CreateSkillLoopEndsAtError(g, skills, fails, i, created_skills) ==
    IF i > Len(skills) THEN [graph |-> g, ret |-> created_skills]
    ELSE LET skill_name == NormalizeName(skills[i]) IN
         IF skill_name = <<>>
         THEN CreateSkillLoopEndsAtError(g, skills, fails, i + 1,
                                         created_skills)
         ELSE IF i \in fails
         THEN [graph |-> g, ret |-> created_skills]
         ELSE CreateSkillLoopEndsAtError(
                  MergeSkill(g, skill_name, SkillLevel(skills[i])),
                  skills, fails, i + 1, Append(created_skills, skill_name))

\* The loop of create_skill_nodes from entry i on.  fails is the set of
\* entries whose session.run raises: the write does not happen, the error
\* is logged and the loop goes on.
RECURSIVE CreateSkillLoop(_, _, _, _, _)
CreateSkillLoop(g, skills, fails, i, created_skills) ==
    IF i > Len(skills) THEN [graph |-> g, ret |-> created_skills]
    ELSE LET skill_name == NormalizeName(skills[i]) IN
         IF skill_name = <<>>
         THEN CreateSkillLoop(g, skills, fails, i + 1, created_skills)
         ELSE IF i \in fails
         THEN CreateSkillLoop(g, skills, fails, i + 1, created_skills)
         ELSE CreateSkillLoop(MergeSkill(g, skill_name, SkillLevel(skills[i])),
                              skills, fails, i + 1,
                              Append(created_skills, skill_name))

CreateSkillNodes(g, skills, fails) ==
    IF skills = <<>> THEN [graph |-> g, ret |-> <<>>]
    ELSE CreateSkillLoop(g, skills, fails, 1, <<>>)

(***************************************************************************)
(* Relationships.  An edge is [from, to, props]; a bag counts the edges    *)
(* that agree on all three.                                                *)
(***************************************************************************)
Between(edges, from, to) ==
    {e \in BagToSet(edges) : e.from = from /\ e.to = to}

RECURSIVE Copies(_, _)
Copies(edges, es) ==
    IF es = {} THEN 0
    ELSE LET e == CHOOSE x \in es : TRUE
         IN  CopiesIn(e, edges) + Copies(edges, es \ {e})

\* The number of relationships from node `from` to node `to`.
EdgeCount(edges, from, to) == Copies(edges, Between(edges, from, to))

\* A MERGE without ON MATCH SET: a relationship already there keeps the
\* properties it was created with.
MergeEdgeKeepsFirst(edges, from, to, props) ==
    IF Between(edges, from, to) # {} THEN edges
    ELSE edges (+) SetToBag({[from |-> from, to |-> to, props |-> props]})

\* MERGE (a)-[r:TYPE]->(b) ON CREATE SET r.* = props ON MATCH SET r.* = props
\* for one row <<a, b>>: every relationship between the two nodes takes the
\* new properties; when there is none, one is created.
MergeEdge(edges, from, to, props) ==
    LET old  == Between(edges, from, to)
        n    == Copies(edges, old)
        kept == [e \in BagToSet(edges) \ old |-> edges[e]]
        new  == [from |-> from, to |-> to, props |-> props]
    IN  kept (+) [e \in {new} |-> IF n = 0 THEN 1 ELSE n]

\* The same MERGE over every row of the two MATCH clauses.
RECURSIVE MergeRows(_, _, _)
MergeRows(edges, rows, props) ==
    IF rows = {} THEN edges
    ELSE LET r == CHOOSE x \in rows : TRUE
         IN  MergeRows(MergeEdge(edges, r[1], r[2], props), rows \ {r}, props)

\* proficiency=skill.get('proficiency', 1), years_experience=skill.get('years_experience', 0)
HasSkillProps(skill) ==
    [proficiency      |-> Get(skill, "proficiency", 1),
     years_experience |-> Get(skill, "years_experience", 0)]

\* importance=skill.get('importance', 5), min_years=..., required=...
RequiresSkillProps(skill) ==
    [importance |-> Get(skill, "importance", 5),
     min_years  |-> Get(skill, "min_years", 0),
     required   |-> Get(skill, "required", TRUE)]

\* The query of link_candidate_skills with CREATE in the place of MERGE:
\* every row gets one more relationship.
LinkCandidateSkillCreates(g, candidate_id, skill_name, skill) ==
    [g EXCEPT !.hasSkill =
        @ (+) SetToBag({[from |-> r[1], to |-> r[2],
                         props |-> HasSkillProps(skill)] :
                        r \in MatchCandidate(g, candidate_id)
                                 \X MatchSkill(g, skill_name)})]

\* The query of link_candidate_skills for one entry.
LinkCandidateSkill(g, candidate_id, skill_name, skill) ==
    [g EXCEPT !.hasSkill =
        MergeRows(@, MatchCandidate(g, candidate_id) \X MatchSkill(g, skill_name),
                  HasSkillProps(skill))]

RECURSIVE LinkCandidateLoop(_, _, _, _, _)
LinkCandidateLoop(g, candidate_id, skills, fails, i) ==
    IF i > Len(skills) THEN g
    ELSE LET skill_name == NormalizeName(skills[i]) IN
         IF skill_name = <<>> \/ i \in fails
         THEN LinkCandidateLoop(g, candidate_id, skills, fails, i + 1)
         ELSE LinkCandidateLoop(
                  LinkCandidateSkill(g, candidate_id, skill_name, skills[i]),
                  candidate_id, skills, fails, i + 1)

LinkCandidateSkills(g, candidate_id, skills, fails) ==
    IF skills = <<>> THEN g
    ELSE LinkCandidateLoop(g, candidate_id, skills, fails, 1)

\* The query of link_job_requirements with one MERGE over the whole
\* pattern in the place of the MATCH of the skill: a skill that is absent
\* is created and linked.
LinkJobRequirementMergesSkill(g, job_id, skill_name, skill) ==
    LET g1 == IF MatchSkill(g, skill_name) = {} /\ MatchJob(g, job_id) # {}
              THEN [g EXCEPT !.skills =
                       Append(@, [name |-> skill_name, level |-> 1])]
              ELSE g
    IN  [g1 EXCEPT !.requiresSkill =
            MergeRows(@, MatchJob(g1, job_id) \X MatchSkill(g1, skill_name),
                      RequiresSkillProps(skill))]

\* The query of link_job_requirements for one entry.
LinkJobRequirement(g, job_id, skill_name, skill) ==
    [g EXCEPT !.requiresSkill =
        MergeRows(@, MatchJob(g, job_id) \X MatchSkill(g, skill_name),
                  RequiresSkillProps(skill))]

RECURSIVE LinkJobLoop(_, _, _, _, _)
LinkJobLoop(g, job_id, required_skills, fails, i) ==
    IF i > Len(required_skills) THEN g
    ELSE LET skill_name == NormalizeName(required_skills[i]) IN
         IF skill_name = <<>> \/ i \in fails
         THEN LinkJobLoop(g, job_id, required_skills, fails, i + 1)
         ELSE LinkJobLoop(
                  LinkJobRequirement(g, job_id, skill_name, required_skills[i]),
                  job_id, required_skills, fails, i + 1)

LinkJobRequirements(g, job_id, required_skills, fails) ==
    IF required_skills = <<>> THEN g
    ELSE LinkJobLoop(g, job_id, required_skills, fails, 1)

(***************************************************************************)
(* Experience records.  exp_id = f"{candidate_id}_exp_{i}" is the pair     *)
(* <<candidate_id, i>>.                                                    *)
(***************************************************************************)
\* MATCH (c:Candidate {id}) CREATE (e:Experience {...}) CREATE (c)-[:HAS_EXPERIENCE]->(e)
\* creates one node and one edge for every candidate node the MATCH finds.
RECURSIVE CreateExperienceRows(_, _, _)
CreateExperienceRows(g, rows, e) ==
    IF rows = {} THEN g
    ELSE LET c  == CHOOSE x \in rows : \A y \in rows : x <= y
             g1 == [g EXCEPT
                      !.exps = Append(@, e),
                      !.hasExperience =
                          @ (+) SetToBag({[from |-> c, to |-> Len(g.exps) + 1,
                                           props |-> <<>>]})]
         IN  CreateExperienceRows(g1, rows \ {c}, e)

\* One entry of create_experience_nodes.  With no candidate node the query
\* returns no row, result.single() is None and the subscript raises: the
\* error is logged and the id is not recorded.
RECURSIVE CreateExperienceLoop(_, _, _, _, _, _)
CreateExperienceLoop(g, candidate_id, experiences, fails, i, created) ==
    IF i > Len(experiences) THEN [graph |-> g, ret |-> created]
    ELSE LET exp_id == <<candidate_id, i - 1>>
             rows   == MatchCandidate(g, candidate_id)
             e      == [id |-> exp_id,
                        years_experience |->
                            Get(experiences[i], "years_experience", 1)]
         IN  IF i \in fails \/ rows = {}
             THEN CreateExperienceLoop(g, candidate_id, experiences, fails,
                                       i + 1, created)
             ELSE CreateExperienceLoop(CreateExperienceRows(g, rows, e),
                                       candidate_id, experiences, fails, i + 1,
                                       Append(created, exp_id))

CreateExperienceNodes(g, candidate_id, experiences, fails) ==
    IF experiences = <<>> THEN [graph |-> g, ret |-> <<>>]
    ELSE CreateExperienceLoop(g, candidate_id, experiences, fails, 1, <<>>)

(***************************************************************************)
(* Numbers.  The scores are Python floats; they are modelled as exact      *)
(* fractions <<n, d>> in lowest terms with d > 0, the decimal literals of  *)
(* the source (0.35, 1.1, 2.2, ...) at their decimal value.                *)
(***************************************************************************)
Abs(n) == IF n < 0 THEN -n ELSE n

RECURSIVE Gcd(_, _)
Gcd(a, b) == IF b = 0 THEN a ELSE Gcd(b, a % b)

Frac(n, d) ==
    LET k == Gcd(Abs(n), Abs(d))
        sgn == IF d < 0 THEN -1 ELSE 1
    IN  <<sgn * (n \div k), sgn * (d \div k)>>

Num(n) == <<n, 1>>

Plus(x, y) == Frac(x[1] * y[2] + y[1] * x[2], x[2] * y[2])

Times(x, y) == Frac(x[1] * y[1], x[2] * y[2])

Over(x, y) == Frac(x[1] * y[2], x[2] * y[1])

Leq(x, y) == x[1] * y[2] <= y[1] * x[2]

Less(x, y) == x[1] * y[2] < y[1] * x[2]

Least(x, y) == IF Leq(x, y) THEN x ELSE y

Greatest(x, y) == IF Leq(y, x) THEN x ELSE y

\* round(x, 1): the nearest multiple of 0.1, a tie going to the even one.
Round1(x) ==
    LET q == (10 * x[1]) \div x[2]
        r == (10 * x[1]) % x[2]
    IN  IF 2 * r > x[2] \/ (2 * r = x[2] /\ q % 2 = 1)
        THEN Frac(q + 1, 10)
        ELSE Frac(q, 10)

\* The sum of the values of a function with a finite domain.
RECURSIVE Total(_)
Total(f) ==
    IF DOMAIN f = {} THEN 0
    ELSE LET x == CHOOSE y \in DOMAIN f : TRUE
         IN  f[x] + Total([y \in DOMAIN f \ {x} |-> f[y]])

(***************************************************************************)
(* The three reads of calculate_candidate_job_match.  A query returns a    *)
(* bag of rows: one row for every way of matching its pattern.             *)
(***************************************************************************)
\* coalesce(x.k, default): a property that is null is a property the node or
\* relationship does not have.
Coalesce(props, k, default) == IF k \in DOMAIN props THEN props[k] ELSE default

\* MATCH (c:Candidate {id})-[ch:HAS_SKILL]->(s:Skill)<-[jr:REQUIRES_SKILL]-(j:Job {id})
SkillMatchQuery(g, candidate_id, job_id) ==
    LET paths == {p \in BagToSet(g.hasSkill) \X BagToSet(g.requiresSkill) :
                     /\ p[1].to = p[2].to
                     /\ p[1].from \in MatchCandidate(g, candidate_id)
                     /\ p[2].from \in MatchJob(g, job_id)}
        Row(p) ==
            [skill                 |-> g.skills[p[1].to].name,
             candidate_proficiency |-> Coalesce(p[1].props, "proficiency", 1),
             candidate_years       |-> Coalesce(p[1].props, "years_experience", 0),
             job_importance        |-> Coalesce(p[2].props, "importance", 5),
             required_years        |-> Coalesce(p[2].props, "min_years", 0),
             is_required           |-> Coalesce(p[2].props, "required", TRUE)]
    IN  [r \in {Row(p) : p \in paths} |->
            Total([p \in {q \in paths : Row(q) = r} |->
                      g.hasSkill[p[1]] * g.requiresSkill[p[2]]])]

\* MATCH (j:Job {id: $job_id})-[jr:REQUIRES_SKILL]->(s:Skill)
AllRequiredQuery(g, job_id) ==
    LET edges == {e \in BagToSet(g.requiresSkill) : e.from \in MatchJob(g, job_id)}
        Row(e) ==
            [skill       |-> g.skills[e.to].name,
             importance  |-> Coalesce(e.props, "importance", 5),
             is_required |-> Coalesce(e.props, "required", TRUE),
             min_years   |-> Coalesce(e.props, "min_years", 0)]
    IN  [r \in {Row(e) : e \in edges} |->
            Total([e \in {x \in edges : Row(x) = r} |-> g.requiresSkill[e]])]

\* MATCH (c:Candidate {id}) RETURN coalesce(c.total_years_experience, 0),
\* read with .single(): the values the read can give.  With no such node it
\* gives 0; with several nodes of that id it gives the first record of the
\* stream, whichever node that is.
CandidateYearsQuery(g, candidate_id) ==
    IF MatchCandidate(g, candidate_id) = {} THEN {0}
    ELSE {Coalesce(g.cands[c], "total_years_experience", 0) :
             c \in MatchCandidate(g, candidate_id)}

(***************************************************************************)
(* _calculate_detailed_scores.  skill_matches and all_required are the     *)
(* bags of rows of the first two reads.                                    *)
(***************************************************************************)
\* The sum of the values, fractions, of a function with a finite domain.
RECURSIVE TotalFrac(_)
TotalFrac(f) ==
    IF DOMAIN f = {} THEN Num(0)
    ELSE LET x == CHOOSE y \in DOMAIN f : TRUE
         IN  Plus(f[x], TotalFrac([y \in DOMAIN f \ {x} |-> f[y]]))

\* SkillCoverage as a fraction of one, not of a hundred.
SkillCoverageAsRatio(matched_count, total_required) ==
    Frac(matched_count, total_required)

\* skill_coverage = (matched_count / total_required) * 100
SkillCoverage(matched_count, total_required) ==
    Times(Frac(matched_count, total_required), Num(100))

\* coverage_score = min(skill_coverage, 100) * 0.35
CoverageScore(skill_coverage) ==
    Times(Least(skill_coverage, Num(100)), Frac(35, 100))

\* The experience factor of one matched skill, 0.6 to 2.2.
ExpFactor(candidate_years, required_years) ==
    IF required_years > 0
    THEN Greatest(Least(Frac(candidate_years, required_years), Frac(22, 10)),
                  Frac(6, 10))
    ELSE Least(Frac(candidate_years, 2), Frac(18, 10))

\* The proficiency factor boosted above 0.7 only: a proficiency of exactly
\* 7 gets no boost.
ProfFactorBoostAbove(candidate_proficiency) ==
    LET prof_factor == Least(Frac(candidate_proficiency, 10), Num(1))
    IN  IF Less(Frac(7, 10), prof_factor)
        THEN Times(prof_factor, Frac(11, 10))
        ELSE prof_factor

\* The proficiency factor of one matched skill, boosted from 0.7 on.
ProfFactor(candidate_proficiency) ==
    LET prof_factor == Least(Frac(candidate_proficiency, 10), Num(1))
    IN  IF Leq(Frac(7, 10), prof_factor)
        THEN Times(prof_factor, Frac(11, 10))
        ELSE prof_factor

\* skill_score = prof_factor * exp_factor * importance
SkillScore(match) ==
    Times(Times(ProfFactor(match.candidate_proficiency),
                ExpFactor(match.candidate_years, match.required_years)),
          Num(match.job_importance))

\* quality_score = (sum of skill_score / sum of importance) * 40, or 0
QualityScore(skill_matches) ==
    LET quality == TotalFrac([m \in DOMAIN skill_matches |->
                       Times(Num(skill_matches[m]), SkillScore(m))])
        total_quality_weight ==
            Total([m \in DOMAIN skill_matches |->
                      skill_matches[m] * m.job_importance])
    IN  IF total_quality_weight > 0
        THEN Times(Over(quality, Num(total_quality_weight)), Num(40))
        ELSE Num(0)

\* The step function of the candidate's total years.
ExperienceScore(candidate_total_years) ==
    IF candidate_total_years >= 7
    THEN IF candidate_total_years >= 10 THEN Num(20)
         ELSE IF candidate_total_years >= 8 THEN Num(18)
         ELSE Num(15)
    ELSE IF candidate_total_years >= 5 THEN Num(10)
    ELSE IF candidate_total_years >= 3 THEN Num(6)
    ELSE Num(2)

\* The critical-skills score without the default: a job with no skill
\* flagged required gets 0.
CriticalScoreNoDefault(skill_matches, all_required) ==
    LET critical == {r \in DOMAIN all_required : Get(r, "is_required", TRUE)}
        found == {r \in critical : \E m \in DOMAIN skill_matches : m.skill = r.skill}
        total_critical_skills == Total([r \in critical |-> all_required[r]])
        critical_skills_present == Total([r \in found |-> all_required[r]])
    IN  IF total_critical_skills > 0
        THEN Times(Frac(critical_skills_present, total_critical_skills), Num(5))
        ELSE Num(0)

\* critical_score = critical_skills_present / total_critical_skills * 5, or 5
CriticalScore(skill_matches, all_required) ==
    LET critical == {r \in DOMAIN all_required : Get(r, "is_required", TRUE)}
        found == {r \in critical : \E m \in DOMAIN skill_matches : m.skill = r.skill}
        total_critical_skills == Total([r \in critical |-> all_required[r]])
        critical_skills_present == Total([r \in found |-> all_required[r]])
    IN  IF total_critical_skills > 0
        THEN Times(Frac(critical_skills_present, total_critical_skills), Num(5))
        ELSE Num(5)

\* sub in s, for strings
Contains(s, sub) ==
    \E i \in 0..(Len(s) - Len(sub)) : SubSeq(s, i + 1, i + Len(sub)) = sub

\* The senior boost with the coverage compared strictly: a coverage of
\* exactly 60 gets no boost and one of exactly 80 the smaller one.
SeniorBoostAboveOnly(final_score, skill_coverage, candidate_total_years) ==
    IF Less(Num(60), skill_coverage) /\ candidate_total_years >= 7
    THEN IF Less(Num(80), skill_coverage)
         THEN Times(final_score, Frac(115, 100))
         ELSE Times(final_score, Frac(110, 100))
    ELSE final_score

\* The senior boost: x1.15 or x1.10.
SeniorBoost(final_score, skill_coverage, candidate_total_years) ==
    IF Leq(Num(60), skill_coverage) /\ candidate_total_years >= 7
    THEN IF Leq(Num(80), skill_coverage)
         THEN Times(final_score, Frac(115, 100))
         ELSE Times(final_score, Frac(110, 100))
    ELSE final_score

\* The leadership bonus given whatever the candidate's total years.
LeadershipBonusAnyYears(final_score, skill_matches, candidate_total_years) ==
    LET has_leadership ==
            \E m \in DOMAIN skill_matches :
                \/ Contains(LowerStr(m.skill), <<"l", "e", "a", "d">>)
                \/ Contains(LowerStr(m.skill), <<"s", "e", "n", "i", "o", "r">>)
                \/ Contains(LowerStr(m.skill), <<"m", "a", "n", "a", "g", "e">>)
    IN  IF has_leadership THEN Plus(final_score, Num(5)) ELSE final_score

\* The leadership bonus: +5.
LeadershipBonus(final_score, skill_matches, candidate_total_years) ==
    LET has_leadership ==
            \E m \in DOMAIN skill_matches :
                \/ Contains(LowerStr(m.skill), <<"l", "e", "a", "d">>)
                \/ Contains(LowerStr(m.skill), <<"s", "e", "n", "i", "o", "r">>)
                \/ Contains(LowerStr(m.skill), <<"m", "a", "n", "a", "g", "e">>)
    IN  IF has_leadership /\ candidate_total_years >= 5
        THEN Plus(final_score, Num(5))
        ELSE final_score

\* ApplyCaps without the two thresholds on the coverage.
ApplyCapsNoThresholds(final_score, matched_count, skill_coverage) ==
    IF matched_count = 0 THEN Num(0) ELSE Least(final_score, Num(95))

\* ApplyCaps with the thresholds as values, not as ceilings: a score under
\* a threshold is set to it.
ApplyCapsSetsThreshold(final_score, matched_count, skill_coverage) ==
    IF matched_count = 0 THEN Num(0)
    ELSE IF Less(skill_coverage, Num(20)) THEN Num(30)
    ELSE IF Less(skill_coverage, Num(40)) THEN Num(55)
    ELSE Least(final_score, Num(95))

\* ApplyCaps without min(final_score, 95.0).
ApplyCapsNoMaximum(final_score, matched_count, skill_coverage) ==
    IF matched_count = 0 THEN Num(0)
    ELSE IF Less(skill_coverage, Num(20)) THEN Least(final_score, Num(30))
    ELSE IF Less(skill_coverage, Num(40)) THEN Least(final_score, Num(55))
    ELSE final_score

\* ApplyCaps without the branch for matched_count == 0.
ApplyCapsNoZeroBranch(final_score, matched_count, skill_coverage) ==
    LET capped == Least(final_score, Num(95))
    IN  IF Less(skill_coverage, Num(20)) THEN Least(capped, Num(30))
        ELSE IF Less(skill_coverage, Num(40)) THEN Least(capped, Num(55))
        ELSE capped

\* final_score = min(final_score, 95.0), then the thresholds on the coverage.
ApplyCaps(final_score, matched_count, skill_coverage) ==
    LET capped == Least(final_score, Num(95))
    IN  IF matched_count = 0 THEN Num(0)
        ELSE IF Less(skill_coverage, Num(20)) THEN Least(capped, Num(30))
        ELSE IF Less(skill_coverage, Num(40)) THEN Least(capped, Num(55))
        ELSE capped

CalculateDetailedScores(skill_matches, all_required, candidate_total_years) ==
    LET total_required == BagCardinality(all_required)
        matched_count  == BagCardinality(skill_matches)
    IN  IF total_required = 0
        THEN [final_score |-> Num(0), skill_coverage |-> Num(0),
              breakdown |-> <<>>]
        ELSE
        LET skill_coverage   == SkillCoverage(matched_count, total_required)
            coverage_score   == CoverageScore(skill_coverage)
            quality_score    == QualityScore(skill_matches)
            experience_score == ExperienceScore(candidate_total_years)
            critical_score   == CriticalScore(skill_matches, all_required)
            summed   == Plus(Plus(coverage_score, quality_score),
                             Plus(experience_score, critical_score))
            boosted  == SeniorBoost(summed, skill_coverage, candidate_total_years)
            bonused  == LeadershipBonus(boosted, skill_matches,
                                        candidate_total_years)
            final_score == ApplyCaps(bonused, matched_count, skill_coverage)
        IN  [final_score    |-> Round1(final_score),
             skill_coverage |-> Round1(skill_coverage),
             breakdown |->
                 [coverage_score        |-> Round1(coverage_score),
                  quality_score         |-> Round1(quality_score),
                  experience_score      |-> Round1(experience_score),
                  critical_skills_score |-> Round1(critical_score),
                  matched_skills        |-> matched_count,
                  total_required        |-> total_required,
                  candidate_years       |-> candidate_total_years]]

(***************************************************************************)
(* calculate_candidate_job_match.  failed_read is the read that raises     *)
(* (1, 2 or 3; 0 when none does) and total_years what the third read gave. *)
(***************************************************************************)
\* An except branch that logs the error and raises it again.
MatchFailedRaises(candidate_id, job_id) == [status |-> "raised", value |-> <<>>]

\* The except branch: the error is logged and a zeroed result returned.
MatchFailed(candidate_id, job_id) ==
    [status |-> "returned",
     value  |-> [candidate_id          |-> candidate_id,
                 job_id                |-> job_id,
                 match_score           |-> Num(0),
                 skill_coverage        |-> Num(0),
                 matched_skills        |-> 0,
                 total_required_skills |-> 1,
                 skill_matches         |-> EmptyBag]]

CalculateCandidateJobMatch(g, candidate_id, job_id, failed_read, total_years) ==
    IF failed_read # 0 THEN MatchFailed(candidate_id, job_id)
    ELSE
    LET skill_matches == SkillMatchQuery(g, candidate_id, job_id)
        all_required  == AllRequiredQuery(g, job_id)
        scores == CalculateDetailedScores(skill_matches, all_required,
                                          total_years)
    IN  [status |-> "returned",
         value  |-> [candidate_id          |-> candidate_id,
                     job_id                |-> job_id,
                     match_score           |-> scores.final_score,
                     skill_coverage        |-> scores.skill_coverage,
                     matched_skills        |-> BagCardinality(skill_matches),
                     total_required_skills |-> BagCardinality(all_required),
                     skill_matches         |-> skill_matches,
                     score_breakdown       |-> scores.breakdown]]

(***************************************************************************)
(* get_all_candidates_for_job.  list_fails: the listing query raises (it   *)
(* is outside every try); fails: the candidates, by position, whose        *)
(* scoring meets a failing read; years: what the third read gives for each.*)
(***************************************************************************)
\* x goes behind every entry whose key is not smaller: the order of equal
\* keys is kept, as list.sort(reverse=True) keeps it.
InsertDescending(sorted, x) ==
    LET ahead == {i \in 1..Len(sorted) :
                     ~Less(sorted[i].match_score, x.match_score)}
        k == Cardinality(ahead)
    IN  SubSeq(sorted, 1, k) \o <<x>> \o SubSeq(sorted, k + 1, Len(sorted))

\* The list left in the order of the listing query.
SortByMatchScoreOmitted(results) == results

\* results.sort(key=lambda x: x['match_score'], reverse=True)
RECURSIVE SortByMatchScore(_)
SortByMatchScore(results) ==
    IF results = <<>> THEN <<>>
    ELSE InsertDescending(
             SortByMatchScore(SubSeq(results, 1, Len(results) - 1)),
             results[Len(results)])

\* The skill-match query with MERGE where it has MATCH: it creates the
\* HAS_SKILL relationship it does not find, between every candidate and
\* every skill.
AfterReadsThatMerge(g) ==
    [g EXCEPT !.hasSkill =
        @ (+) SetToBag({[from |-> c, to |-> s,
                         props |-> [proficiency |-> 1, years_experience |-> 0]] :
                        <<c, s>> \in {x \in (1..Len(g.cands)) \X (1..Len(g.skills)) :
                                         Between(g.hasSkill, x[1], x[2]) = {}}})]

\* The graph after the three queries of one calculate_candidate_job_match:
\* each is MATCH ... RETURN, none has a clause that writes.
AfterReads(g) == g

\* The graph after n candidates have been scored.
RECURSIVE AfterScoring(_, _)
AfterScoring(g, n) == IF n = 0 THEN g ELSE AfterReads(AfterScoring(g, n - 1))

\* MATCH (c:Candidate) RETURN c.id ... ORDER BY c.created_at
ListCandidates(g) == [i \in 1..Len(g.cands) |-> g.cands[i].id]

GetAllCandidatesForJob(g, job_id, list_fails, fails, years) ==
    IF list_fails THEN [status |-> "raised", value |-> <<>>]
    ELSE
    LET candidates == ListCandidates(g)
        outcomes ==
            [i \in 1..Len(candidates) |->
                CalculateCandidateJobMatch(AfterScoring(g, i - 1),
                                           candidates[i], job_id,
                                           IF i \in fails THEN 1 ELSE 0,
                                           years[i])]
        Returned(o) == o.status = "returned"
        kept == SelectSeq(outcomes, Returned)
        results == [i \in 1..Len(kept) |-> kept[i].value]
    IN  IF candidates = <<>> THEN [status |-> "returned", value |-> <<>>]
        ELSE [status |-> "returned", value |-> SortByMatchScore(results)]

(***************************************************************************)
(* The inputs of the calls.                                                *)
(***************************************************************************)
JobIds == {"j1"}

CandIds == {"c1", "c2"}

JobDatas == [id : JobIds]

CandidateDatas == [id : CandIds, total_years_experience : {6}]

\* Skill entries of a candidate profile: "Py" and "py " are two spellings
\* of one skill and carry different proficiencies and years; " " is empty
\* once normalized.
CandidateSkillDicts ==
    {[name |-> <<"P", "y">>, proficiency |-> 3, years_experience |-> 1],
     [name |-> <<"p", "y", " ">>, proficiency |-> 7, years_experience |-> 4],
     [name |-> <<" ">>, proficiency |-> 7, years_experience |-> 4]}

\* Skill entries of a job: they name no level and no proficiency; the
\* entry for " Go" names nothing but the skill.
JobSkillDicts ==
    {[name |-> <<"P", "y">>, importance |-> 9, min_years |-> 2, required |-> TRUE],
     [name |-> <<"p", "y", " ">>, importance |-> 4, min_years |-> 0, required |-> FALSE],
     [name |-> <<" ", "G", "o">>]}

ExperienceDicts == {[role |-> "dev"], [role |-> "dev", years_experience |-> 3]}

Batches(S) == UNION {[1..n -> S] : n \in 0..MaxBatch}

\* At most one entry of a batch meets a store error.
FailSets(batch) == {{}} \cup {{i} : i \in 1..Len(batch)}

\* The graph holds at most MaxNodes nodes.
NodeCount(g) == Len(g.jobs) + Len(g.cands) + Len(g.skills) + Len(g.exps)

WithinBounds(g) == NodeCount(g) <= MaxNodes

(***************************************************************************)
(* History.  What the calls sent to the store since it was last cleared,   *)
(* kept beside the graph so that the graph can be compared with it.        *)
(***************************************************************************)
\* The <<skill_name, level>> pairs create_skill_nodes sends to the store.
SuppliedLevels(skills, fails) ==
    {<<NormalizeName(skills[i]), SkillLevel(skills[i])>> :
        i \in {k \in 1..Len(skills) :
                  NormalizeName(skills[k]) # <<>> /\ k \notin fails}}

\* One link query has run over rows with properties props: each row now
\* has these as its last properties, and is marked when it had some before.
Relink(log, type, rows, props) ==
    LET old == {l \in log : l.type = type /\ <<l.from, l.to>> \in rows}
    IN  (log \ old) \cup
        {[type |-> type, from |-> r[1], to |-> r[2], props |-> props,
          relinked |-> \E l \in old : l.from = r[1] /\ l.to = r[2]] : r \in rows}

\* The rows of the link queries of a batch, entry by entry.  Rows(skill_name)
\* are the rows of the two MATCH clauses and Props(skill) the properties.
RECURSIVE RelinkCandidate(_, _, _, _, _, _)
RelinkCandidate(log, g, candidate_id, skills, fails, i) ==
    IF i > Len(skills) THEN log
    ELSE LET skill_name == NormalizeName(skills[i])
             rows == MatchCandidate(g, candidate_id) \X MatchSkill(g, skill_name)
         IN  RelinkCandidate(
                 IF skill_name = <<>> \/ i \in fails THEN log
                 ELSE Relink(log, "HAS_SKILL", rows, HasSkillProps(skills[i])),
                 g, candidate_id, skills, fails, i + 1)

RECURSIVE RelinkJob(_, _, _, _, _, _)
RelinkJob(log, g, job_id, required_skills, fails, i) ==
    IF i > Len(required_skills) THEN log
    ELSE LET skill_name == NormalizeName(required_skills[i])
             rows == MatchJob(g, job_id) \X MatchSkill(g, skill_name)
         IN  RelinkJob(
                 IF skill_name = <<>> \/ i \in fails THEN log
                 ELSE Relink(log, "REQUIRES_SKILL", rows,
                             RequiresSkillProps(required_skills[i])),
                 g, job_id, required_skills, fails, i + 1)

(***************************************************************************)
(* The ingestion calls of the service, one action each, made in any order  *)
(* with any arguments.  result holds what the last scoring call returned;  *)
(* the ingestion calls leave it alone.                                     *)
(***************************************************************************)
NoResult == [call |-> "none"]

Init ==
    /\ graph = EmptyGraph
    /\ result = NoResult
    /\ supplied = {}
    /\ links = {}
    /\ pc = <<>>

Step(g, sup, log) ==
    /\ WithinBounds(g)
    /\ graph' = g
    /\ supplied' = sup
    /\ links' = log
    /\ UNCHANGED <<result, pc>>

clear_database == Step(ClearDatabase(graph), {}, {})

create_job_node ==
    \E job_data \in JobDatas :
        Step(CreateJobNode(graph, job_data).graph, supplied, links)

create_candidate_node ==
    \E candidate_data \in CandidateDatas :
        Step(CreateCandidateNode(graph, candidate_data).graph, supplied, links)

create_skill_nodes ==
    \E skills \in Batches(CandidateSkillDicts) \cup Batches(JobSkillDicts) :
        \E fails \in FailSets(skills) :
            Step(CreateSkillNodes(graph, skills, fails).graph,
                 supplied \cup SuppliedLevels(skills, fails), links)

create_experience_nodes ==
    \E candidate_id \in CandIds, experiences \in Batches(ExperienceDicts) :
        \E fails \in FailSets(experiences) :
            Step(CreateExperienceNodes(graph, candidate_id, experiences,
                                       fails).graph,
                 supplied, links)

link_candidate_skills ==
    \E candidate_id \in CandIds, skills \in Batches(CandidateSkillDicts) :
        \E fails \in FailSets(skills) :
            Step(LinkCandidateSkills(graph, candidate_id, skills, fails),
                 supplied,
                 RelinkCandidate(links, graph, candidate_id, skills, fails, 1))

link_job_requirements ==
    \E job_id \in JobIds, required_skills \in Batches(JobSkillDicts) :
        \E fails \in FailSets(required_skills) :
            Step(LinkJobRequirements(graph, job_id, required_skills, fails),
                 supplied,
                 RelinkJob(links, graph, job_id, required_skills, fails, 1))

Next ==
    \/ clear_database
    \/ create_job_node
    \/ create_candidate_node
    \/ create_skill_nodes
    \/ create_experience_nodes
    \/ link_candidate_skills
    \/ link_job_requirements

Spec == Init /\ [][Next]_vars

(***************************************************************************)
(* Scoring.  The graph is one an analysis leaves behind: the job and its   *)
(* required skills, then one candidate after the other with its skills     *)
(* (process_resumes, main.py), each create call made once or, retried,     *)
(* twice.  On it a scoring call is made with any arguments.  The scoring   *)
(* calls only read the graph (their queries are MATCH ... RETURN), so what *)
(* one returns does not depend on the calls before it: a behaviour makes   *)
(* one call, and every pair of a graph and a result is still reached.      *)
(***************************************************************************)
MaxResumes == 2

Py(p, y)   == [name |-> <<"P", "y">>, proficiency |-> p, years_experience |-> y]

Go(p, y)   == [name |-> <<"g", "o", " ">>, proficiency |-> p, years_experience |-> y]

Lead(p, y) == [name |-> <<" ", "L", "e", "a", "d">>, proficiency |-> p,
               years_experience |-> y]

Req(raw, i, m, r) ==
    [name |-> raw, importance |-> i, min_years |-> m, required |-> r]

\* The required skills of the job: none; one that is not mandatory; two;
\* three; six, so that one matched skill is less than a fifth of them.
JobSkillLists ==
    {<<>>,
     <<Req(<<"P", "y">>, 5, 0, FALSE)>>,
     <<Req(<<"p", "y">>, 9, 2, TRUE), Req(<<"l", "e", "a", "d">>, 6, 0, FALSE)>>,
     <<Req(<<"P", "Y", " ">>, 9, 3, TRUE), Req(<<"G", "o">>, 5, 0, TRUE),
       Req(<<"L", "e", "a", "d">>, 10, 1, FALSE)>>,
     <<Req(<<"p", "y">>, 8, 2, TRUE), Req(<<"g", "o">>, 5, 0, TRUE),
       Req(<<"l", "e", "a", "d">>, 5, 0, FALSE), Req(<<"c">>, 5, 0, FALSE),
       Req(<<"r">>, 5, 0, FALSE), Req(<<"d">>, 5, 0, FALSE)>>}

\* The candidates: their skills and their total years of experience.
Profiles ==
    {[skills |-> <<>>, total_years_experience |-> 10],
     [skills |-> <<Py(10, 8)>>, total_years_experience |-> 6],
     [skills |-> <<Py(3, 1), Lead(8, 5)>>, total_years_experience |-> 2],
     [skills |-> <<Py(3, 1), Lead(8, 5)>>, total_years_experience |-> 7],
     [skills |-> <<Py(10, 8), Go(10, 4), Lead(10, 9)>>,
      total_years_experience |-> 10]}

ResumeLists == UNION {[1..n -> Profiles] : n \in 0..MaxResumes}

CandidateId(index) == <<"candidate", index>>

\* Step 2 and 3 of process_resumes.
IngestJob(g, job_id, required_skills, retried) ==
    LET Create(x) == CreateJobNode(x, [id |-> job_id]).graph
        g1 == IF retried = "job" THEN Create(Create(g)) ELSE Create(g)
        g2 == IF required_skills # <<>>
              THEN LinkJobRequirements(
                       CreateSkillNodes(g1, required_skills, {}).graph,
                       job_id, required_skills, {})
              ELSE g1
    IN  g2

\* _process_single_resume from the creation of the candidate node on.
IngestResume(g, index, profile, retried) ==
    LET candidate_data ==
            [id |-> CandidateId(index),
             total_years_experience |-> profile.total_years_experience]
        Create(x) == CreateCandidateNode(x, candidate_data).graph
        g1 == IF retried = "candidate" THEN Create(Create(g))
              ELSE Create(g)
    IN  IF profile.skills # <<>>
        THEN LinkCandidateSkills(
                 CreateSkillNodes(g1, profile.skills, {}).graph,
                 CandidateId(index), profile.skills, {})
        ELSE g1

RECURSIVE IngestResumes(_, _, _, _)
IngestResumes(g, resumes, i, retried) ==
    IF i > Len(resumes) THEN g
    ELSE LET next == IngestResume(g, i - 1, resumes[i], retried)
         IN  \* process_resumes awaits _process_single_resume: resume i is
             \* stored (next has its candidate node) before resume i + 1
             \* starts.
             IF next.cands # <<>>
             THEN IngestResumes(next, resumes, i + 1, retried)
             ELSE next

\* The graph process_resumes leaves for one job and one list of resumes.
AnalysedGraph(js, rs, retried) ==
    IngestResumes(IngestJob(ClearDatabase(EmptyGraph), "j1", js, retried),
                  rs, 1, retried)

AnalysedGraphs ==
    {AnalysedGraph(js, rs, retried) :
        js \in JobSkillLists, rs \in ResumeLists,
        retried \in {"none", "job", "candidate"}}

\* The history of the ingestion is kept under Spec only: the properties of
\* scoring do not read it.
InitScore ==
    /\ \E js \in JobSkillLists, rs \in ResumeLists,
          retried \in {"none", "job", "candidate"} :
           graph = AnalysedGraph(js, rs, retried)
    /\ result = NoResult
    /\ supplied = {}
    /\ links = {}
    /\ pc = <<>>

\* What the third read gives, candidate by candidate of the listing.
YearsRead(g) ==
    {years \in [1..Len(g.cands) ->
                   UNION {CandidateYearsQuery(g, g.cands[i].id) :
                             i \in 1..Len(g.cands)}] :
        \A i \in 1..Len(g.cands) :
            years[i] \in CandidateYearsQuery(g, g.cands[i].id)}

calculate_candidate_job_match ==
    /\ result = NoResult
    /\ \E candidate_id \in {CandidateId(i) : i \in 0..MaxResumes},
          job_id \in {"j1", "j2"}, failed_read \in 0..3 :
           \E total_years \in CandidateYearsQuery(graph, candidate_id) :
               LET out == CalculateCandidateJobMatch(graph, candidate_id, job_id,
                                                     failed_read, total_years)
               IN  result' = [call   |-> "calculate_candidate_job_match",
                              args   |-> [candidate_id |-> candidate_id,
                                          job_id       |-> job_id,
                                          failed_read  |-> failed_read,
                                          before       |-> graph],
                              status |-> out.status,
                              value  |-> out.value]
    /\ graph' = AfterReads(graph)
    /\ UNCHANGED <<supplied, links, pc>>

get_all_candidates_for_job ==
    /\ result = NoResult
    /\ \E job_id \in {"j1", "j2"}, list_fails \in BOOLEAN,
          fails \in SUBSET (1..Len(graph.cands)), years \in YearsRead(graph) :
           LET out == GetAllCandidatesForJob(graph, job_id, list_fails, fails,
                                             years)
           IN
           /\ result' = [call   |-> "get_all_candidates_for_job",
                          args   |-> [job_id     |-> job_id,
                                      list_fails |-> list_fails,
                                      fails      |-> fails,
                                      before     |-> graph],
                          status |-> out.status,
                          value  |-> out.value]
           /\ graph' = IF list_fails THEN graph
                       ELSE AfterScoring(graph, Len(graph.cands))
    /\ UNCHANGED <<supplied, links, pc>>

NextScore ==
    \/ calculate_candidate_job_match
    \/ get_all_candidates_for_job

SpecScore == InitScore /\ [][NextScore]_vars

(***************************************************************************)
(* What a writing call returns.  One call of create_skill_nodes or of      *)
(* create_experience_nodes is made on a graph earlier calls have left,     *)
(* with a list of up to MaxEntries entries any of which may meet a store   *)
(* error; result keeps the arguments, the graph before the call and the    *)
(* list returned.                                                          *)
(***************************************************************************)
MaxEntries == 2

Lists(S) == UNION {[1..n -> S] : n \in 0..MaxEntries}

\* The graphs the call is made on: empty; with candidate c1; with c1
\* created twice; with c1 and the skill py at level 7; with c1 and c2.
CalledOn ==
    LET c1 == [id |-> "c1", total_years_experience |-> 6]
        c2 == [id |-> "c2", total_years_experience |-> 6]
        g1 == CreateCandidateNode(EmptyGraph, c1).graph
        known == <<[name |-> <<"p", "y", " ">>, proficiency |-> 7,
                    years_experience |-> 4]>>
    IN  {EmptyGraph,
         g1,
         CreateCandidateNode(g1, c1).graph,
         CreateSkillNodes(g1, known, {}).graph,
         CreateCandidateNode(g1, c2).graph}

InitCall ==
    /\ graph \in CalledOn
    /\ result = NoResult
    /\ supplied = {}
    /\ links = {}
    /\ pc = <<>>

create_skill_nodes_returns ==
    /\ result = NoResult
    /\ \E skills \in Lists(CandidateSkillDicts \cup JobSkillDicts) :
         \E fails \in SUBSET (1..Len(skills)) :
           LET out == CreateSkillNodes(graph, skills, fails)
           IN  /\ graph' = out.graph
               /\ result' = [call   |-> "create_skill_nodes",
                             args   |-> [skills |-> skills,
                                         fails  |-> fails,
                                         before |-> graph],
                             status |-> "returned",
                             value  |-> out.ret]
    /\ UNCHANGED <<supplied, links, pc>>

create_experience_nodes_returns ==
    /\ result = NoResult
    /\ \E candidate_id \in CandIds, experiences \in Lists(ExperienceDicts) :
         \E fails \in SUBSET (1..Len(experiences)) :
           LET out == CreateExperienceNodes(graph, candidate_id, experiences,
                                            fails)
           IN  /\ graph' = out.graph
               /\ result' = [call   |-> "create_experience_nodes",
                             args   |-> [candidate_id |-> candidate_id,
                                         experiences  |-> experiences,
                                         fails        |-> fails,
                                         before       |-> graph],
                             status |-> "returned",
                             value  |-> out.ret]
    /\ UNCHANGED <<supplied, links, pc>>

NextCall ==
    \/ create_skill_nodes_returns
    \/ create_experience_nodes_returns

SpecCall == InitCall /\ [][NextCall]_vars

(***************************************************************************)
(* Profile extraction (backend/gemini_service.py).  The answer of the      *)
(* language model is an input: either the dictionary json.loads gives, or  *)
(* Unusable when generate_content raises, the text is no JSON, or a value  *)
(* has a type the validation chokes on; all three end in the fallback.     *)
(***************************************************************************)
MaxExperience == 2

Unusable == [unusable |-> TRUE]

\* The loop over candidate_data['skills'] without its two proficiency
\* branches: the proficiency stays as the model gave it.
ValidateSkillKeepsProficiency(skill) ==
    LET kept == [name |-> Strip(LowerStr(skill.name)),
                 years_experience |-> Get(skill, "years_experience", 0)]
    IN  IF "proficiency" \in DOMAIN skill
        THEN [k \in DOMAIN kept \cup {"proficiency"} |->
                 IF k = "proficiency" THEN skill.proficiency ELSE kept[k]]
        ELSE kept

\* The loop over candidate_data['skills'].
ValidateSkill(skill) ==
    LET proficiency == Get(skill, "proficiency", 0)
    IN  [name |-> Strip(LowerStr(skill.name)),
         proficiency |-> IF proficiency > 10 THEN 10
                         ELSE IF proficiency < 1 THEN 1
                         ELSE proficiency,
         years_experience |-> Get(skill, "years_experience", 0)]

\* The loop over candidate_data['experience'].
ValidateExperience(exp) ==
    [role |-> exp.role, years_experience |-> Get(exp, "years_experience", 1)]

\* sum([exp.get('years_experience', 0) for exp in experience])
RECURSIVE SumYears(_)
SumYears(experience) ==
    IF experience = <<>> THEN 0
    ELSE Get(Head(experience), "years_experience", 0)
             + SumYears(Tail(experience))

\* The stated figure taken as it is, whatever the entries add up to.
TotalYearsAsStated(total_exp, stated_exp) == stated_exp

\* max(total_exp, stated_exp)
TotalYears(total_exp, stated_exp) ==
    IF total_exp >= stated_exp THEN total_exp ELSE stated_exp

ValidateAndEnhanceCandidateData(candidate_data) ==
    LET skills     == Get(candidate_data, "skills", <<>>)
        experience == Get(candidate_data, "experience", <<>>)
        validated  == [i \in 1..Len(experience) |->
                          ValidateExperience(experience[i])]
    IN  [skills     |-> [i \in 1..Len(skills) |-> ValidateSkill(skills[i])],
         experience |-> validated,
         total_years_experience |->
             TotalYears(SumYears(validated),
                        Get(candidate_data, "total_years_experience", 0))]

\* found_skills: the names of skill_patterns met in the text of the resume.
FallbackCandidateExtraction(found_skills) ==
    [skills |-> [i \in 1..Len(found_skills) |->
                    [name |-> found_skills[i], proficiency |-> 5,
                     years_experience |-> 2]],
     experience |-> IF found_skills # <<>>
                    THEN <<[role |-> "Software Developer",
                            years_experience |-> 2]>>
                    ELSE <<>>,
     total_years_experience |-> IF found_skills # <<>> THEN 2 ELSE 0]

\* status tells which return statement was taken.
ExtractCandidateProfile(response, found_skills) ==
    IF response = Unusable
    THEN [status |-> "fallback",
          value  |-> FallbackCandidateExtraction(found_skills)]
    ELSE [status |-> "validated",
          value  |-> ValidateAndEnhanceCandidateData(response)]

\* The answers: with or without a stated total, with up to MaxExperience
\* experience entries that state their years or not, with skills whose
\* proficiency is out of range or missing.
ExperienceEntries ==
    {[role |-> "dev"]} \cup [role : {"dev"}, years_experience : {0, 2, 5}]

ExperienceLists == UNION {[1..n -> ExperienceEntries] : n \in 0..MaxExperience}

SkillEntryLists ==
    {<<>>,
     <<[name |-> <<"P", "y", " ">>, proficiency |-> 11]>>,
     <<[name |-> <<"g", "o">>, proficiency |-> 0, years_experience |-> 3],
       [name |-> <<"L", "e", "a", "d">>, proficiency |-> 7]>>}

Responses ==
    {Unusable}
    \cup [experience : ExperienceLists]
    \cup [experience : ExperienceLists, skills : SkillEntryLists,
          total_years_experience : {0, 3, 8}]

FoundSkills == {<<>>, <<"python">>, <<"python", "aws">>}

InitExtract ==
    /\ graph = EmptyGraph
    /\ result = NoResult
    /\ supplied = {}
    /\ links = {}
    /\ pc = <<>>

extract_candidate_profile ==
    /\ result = NoResult
    /\ \E response \in Responses, found_skills \in FoundSkills :
           LET out == ExtractCandidateProfile(response, found_skills)
           IN  result' = [call   |-> "extract_candidate_profile",
                          args   |-> [response     |-> response,
                                      found_skills |-> found_skills],
                          status |-> out.status,
                          value  |-> out.value]
    /\ UNCHANGED <<graph, supplied, links, pc>>

NextExtract == extract_candidate_profile

SpecExtract == InitExtract /\ [][NextExtract]_vars

(***************************************************************************)
(* Specification SpecWriters: callers of create_skill_nodes that run at    *)
(* the same time, each on a session of its own.  create_indexes declares   *)
(* four indexes and no uniqueness constraint, so the store runs a MERGE as *)
(* a read of the matching nodes followed by a write, and takes no lock     *)
(* between the two: a caller that has matched nothing creates a node       *)
(* whatever the others created in the meantime.  The ON MATCH clause reads *)
(* s.level under the write lock of the node it sets.                       *)
(***************************************************************************)
MaxWriters == 2

Writers == 1..MaxWriters

Idle == [at |-> "idle"]

\* What create_indexes leaves in the schema: the indexed properties, and
\* the properties constrained to be unique.
CreateIndexes ==
    [indexes |-> {<<"Candidate", "id">>, <<"Job", "id">>,
                  <<"Skill", "name">>, <<"Experience", "role">>},
     unique |-> {}]

\* The write of a MERGE that matched nothing: ON CREATE SET.
MergeOnCreate(g, skill_name, level) ==
    [g EXCEPT !.skills = Append(@, [name |-> skill_name, level |-> level])]

\* The write of a MERGE on the nodes it matched: ON MATCH SET.
MergeOnMatch(g, matched, level) ==
    [g EXCEPT !.skills =
        [s \in 1..Len(@) |->
            IF s \in matched
            THEN [@[s] EXCEPT !.level = OnMatchLevel(level, @)]
            ELSE @[s]]]

InitWriters ==
    /\ graph = EmptyGraph
    /\ result = NoResult
    /\ supplied = {}
    /\ links = {}
    /\ pc = [w \in Writers |-> Idle]

\* One entry of the loop of create_skill_nodes reaches session.run and the
\* store reads the Skill nodes of that name.  With a uniqueness constraint
\* on the name the read would take the lock of the name and the write
\* would follow in the same step.
merge_skill_match(w) ==
    /\ pc[w] = Idle
    /\ <<"Skill", "name">> \notin CreateIndexes.unique
    /\ \E skill \in CandidateSkillDicts \cup JobSkillDicts :
          LET skill_name == NormalizeName(skill) IN
          /\ skill_name # <<>>
          /\ pc' = [pc EXCEPT ![w] = [at |-> "merge",
                                      skill_name |-> skill_name,
                                      level |-> SkillLevel(skill),
                                      matched |-> MatchSkill(graph, skill_name)]]
    /\ UNCHANGED <<graph, result, supplied, links>>

\* The store writes what the MERGE decided on its read.
merge_skill_write(w) ==
    /\ pc[w] # Idle
    /\ graph' = IF pc[w].matched = {}
                THEN MergeOnCreate(graph, pc[w].skill_name, pc[w].level)
                ELSE MergeOnMatch(graph, pc[w].matched, pc[w].level)
    /\ supplied' = supplied \cup {<<pc[w].skill_name, pc[w].level>>}
    /\ pc' = [pc EXCEPT ![w] = Idle]
    /\ UNCHANGED <<result, links>>

NextWriters ==
    \E w \in Writers : merge_skill_match(w) \/ merge_skill_write(w)

SpecWriters == InitWriters /\ [][NextWriters]_vars

(***************************************************************************)
(* Specification SpecRuns: requests to /analyze served at the same time.   *)
(* process_resumes is a coroutine on one event loop: it runs without       *)
(* interruption from one await to the next, and its only await is the      *)
(* read of each resume file in _process_single_resume.  Every file is one  *)
(* that _validate_file accepts and the parser reads.                       *)
(***************************************************************************)
MaxRuns == 2

MaxFiles == 2

Runs == 1..MaxRuns

\* job_id = f"job_{uuid.uuid4().hex[:8]}": the runs draw different ids.
RunJobId(r) == <<"job", r>>

\* candidate_id = f"candidate_{uuid.uuid4().hex[:8]}_{index}"
RunCandidateId(r, index) == <<"candidate", r, index>>

RunJobSkills == {<<>>, <<Req(<<"p", "y">>, 9, 2, TRUE)>>}

RunProfiles ==
    {[skills |-> <<>>, total_years_experience |-> 10],
     [skills |-> <<Py(10, 8)>>, total_years_experience |-> 6,
      experience |-> <<[role |-> "dev", years_experience |-> 3]>>]}

\* analyze_resumes turns away a request without resume files.
RunResumeLists == UNION {[1..n -> RunProfiles] : n \in 1..MaxFiles}

\* process_resumes from its first line to the first await: the wipe, the
\* job node, its skills and their links.
StartRun(g, job_id, required_skills) ==
    IngestJob(ClearDatabase(g), job_id, required_skills, "none")

\* _process_single_resume with link_candidate_skills called before
\* create_skill_nodes.
ProcessSingleResumeLinksFirst(g, candidate_id, profile) ==
    LET candidate_data ==
            [id |-> candidate_id,
             total_years_experience |-> profile.total_years_experience]
        g1 == CreateCandidateNode(g, candidate_data).graph
        skills == Get(profile, "skills", <<>>)
        g2 == IF skills # <<>>
              THEN CreateSkillNodes(
                       LinkCandidateSkills(g1, candidate_id, skills, {}),
                       skills, {}).graph
              ELSE g1
        experience == Get(profile, "experience", <<>>)
    IN  IF experience # <<>>
        THEN CreateExperienceNodes(g2, candidate_id, experience, {}).graph
        ELSE g2

\* _process_single_resume from the line after the await to its return.
ProcessSingleResume(g, candidate_id, profile) ==
    LET candidate_data ==
            [id |-> candidate_id,
             total_years_experience |-> profile.total_years_experience]
        g1 == CreateCandidateNode(g, candidate_data).graph
        skills == Get(profile, "skills", <<>>)
        g2 == IF skills # <<>>
              THEN LinkCandidateSkills(CreateSkillNodes(g1, skills, {}).graph,
                                       candidate_id, skills, {})
              ELSE g1
        experience == Get(profile, "experience", <<>>)
    IN  IF experience # <<>>
        THEN CreateExperienceNodes(g2, candidate_id, experience, {}).graph
        ELSE g2

InitRuns ==
    /\ graph = EmptyGraph
    /\ result = NoResult
    /\ supplied = {}
    /\ links = {}
    /\ pc = [r \in Runs |-> Idle]

\* A request arrives: process_resumes runs up to the await of the first
\* file read.
start_run(r) ==
    /\ pc[r] = Idle
    /\ \E required_skills \in RunJobSkills, resume_files \in RunResumeLists :
          /\ graph' = StartRun(graph, RunJobId(r), required_skills)
          /\ pc' = [pc EXCEPT ![r] = [at |-> "reading",
                                      job_id |-> RunJobId(r),
                                      resume_files |-> resume_files,
                                      i |-> 0]]
    /\ UNCHANGED <<result, supplied, links>>

\* The read of file i returns: the rest of _process_single_resume runs,
\* and then process_resumes up to the await of the next read.
resume_read(r) ==
    /\ pc[r] # Idle
    /\ pc[r].at = "reading"
    /\ pc[r].i + 1 < Len(pc[r].resume_files)
    /\ graph' = ProcessSingleResume(graph, RunCandidateId(r, pc[r].i),
                                    pc[r].resume_files[pc[r].i + 1])
    /\ pc' = [pc EXCEPT ![r].i = @ + 1]
    /\ UNCHANGED <<result, supplied, links>>

\* The read of the last file returns: the candidate is stored and
\* process_resumes goes on to the ranking without another await.
last_resume_read(r) ==
    /\ pc[r] # Idle
    /\ pc[r].at = "reading"
    /\ pc[r].i + 1 = Len(pc[r].resume_files)
    /\ LET g == ProcessSingleResume(graph, RunCandidateId(r, pc[r].i),
                                    pc[r].resume_files[pc[r].i + 1])
       IN  \E list_fails \in BOOLEAN, years \in YearsRead(g) :
              LET out == GetAllCandidatesForJob(g, pc[r].job_id, list_fails,
                                                {}, years)
              IN
              /\ result' = [call   |-> "process_resumes",
                            args   |-> [job_id     |-> pc[r].job_id,
                                        list_fails |-> list_fails],
                            status |-> out.status,
                            value  |-> out.value]
              /\ graph' = IF list_fails THEN g
                          ELSE AfterScoring(g, Len(g.cands))
    /\ pc' = [pc EXCEPT ![r] = [at |-> "ranked"]]
    /\ UNCHANGED <<supplied, links>>

NextRuns ==
    \E r \in Runs : start_run(r) \/ resume_read(r) \/ last_resume_read(r)

SpecRuns == InitRuns /\ [][NextRuns]_vars

(***************************************************************************)
(* Specification SpecAnalyze: one process_resumes run from its first line  *)
(* to its return, with no other run beside it.  Each uploaded file is one  *)
(* that _validate_file turns away, one the parser gets no text from, one   *)
(* whose create_candidate_node meets a store error, or one that is read:   *)
(* then it carries the answer of the model and the skills the fallback     *)
(* would find in its text.                                                 *)
(***************************************************************************)
\* The required skills extract_job_requirements gives: none; one; the same
\* skill under two spellings around an entry whose name is blank; two
\* skills, the second with nothing but its name.
AnalyzeJobSkills ==
    {<<>>,
     <<Req(<<"p", "y">>, 9, 2, TRUE)>>,
     <<Req(<<"P", "y">>, 9, 2, TRUE), Req(<<" ">>, 7, 2, TRUE),
       Req(<<"p", "y", " ">>, 6, 0, FALSE)>>,
     <<Req(<<"g", "o">>, 7, 2, TRUE), [name |-> <<" ", "L", "e", "a", "d">>]>>}

\* The answers of the model for a resume: none that can be used; skills
\* with a proficiency above 10, under 1 and missing.
AnalyzeResponses ==
    {Unusable,
     [skills |-> <<[name |-> <<"P", "y", " ">>, proficiency |-> 11],
                   [name |-> <<"s", "q", "l">>, proficiency |-> 4,
                    years_experience |-> 2]>>,
      total_years_experience |-> 8],
     [skills |-> <<[name |-> <<"g", "o">>, proficiency |-> 0,
                    years_experience |-> 3],
                   [name |-> <<"L", "e", "a", "d">>]>>,
      experience |-> <<[role |-> "dev", years_experience |-> 5]>>]}

AnalyzeFoundSkills == {<<>>, <<<<"p", "y">>>>}

UploadedFiles ==
    [kind : {"invalid", "no text", "store error"}]
    \cup {[kind |-> "read", response |-> Unusable,
           found_skills |-> found] : found \in AnalyzeFoundSkills}
    \cup {[kind |-> "read", response |-> response, found_skills |-> <<>>] :
             response \in AnalyzeResponses \ {Unusable}}

UploadedFileLists == UNION {[1..n -> UploadedFiles] : n \in 1..MaxFiles}

\* What an earlier run left in the store: its job, a candidate and an edge
\* with a proficiency no run writes.
LeftByEarlierRun ==
    LET candidate_id == RunCandidateId(0, 0)
        skill == [name |-> <<"p", "y">>, proficiency |-> 99]
        g1 == CreateJobNode(EmptyGraph, [id |-> RunJobId(0)]).graph
        g2 == CreateCandidateNode(g1, [id |-> candidate_id]).graph
    IN  LinkCandidateSkills(CreateSkillNodes(g2, <<skill>>, {}).graph,
                            candidate_id, <<skill>>, {})

\* _process_single_resume for one file: raised tells whether it raised.
ProcessSingleResumeFile(g, file, candidate_id) ==
    IF file.kind \in {"invalid", "no text", "store error"}
    THEN [raised |-> TRUE, graph |-> g]
    ELSE LET candidate_data ==
                 ExtractCandidateProfile(file.response,
                                         file.found_skills).value
         IN  [raised |-> FALSE,
              graph  |-> ProcessSingleResume(g, candidate_id, candidate_data)]

\* The loop of process_resumes with the try around the loop, not in it:
\* the first file that raises ends the loop.
RECURSIVE ProcessResumesLoopEndsAtError(_, _, _, _, _)
ProcessResumesLoopEndsAtError(g, resume_files, i, candidates, processing_errors) ==
    IF i >= Len(resume_files)
    THEN [graph |-> g, candidates |-> candidates,
          processing_errors |-> processing_errors]
    ELSE LET out == ProcessSingleResumeFile(g, resume_files[i + 1],
                                            RunCandidateId(1, i))
         IN  IF out.raised
             THEN [graph |-> out.graph, candidates |-> candidates,
                   processing_errors |-> Append(processing_errors, i)]
             ELSE ProcessResumesLoopEndsAtError(
                      out.graph, resume_files, i + 1,
                      Append(candidates, RunCandidateId(1, i)),
                      processing_errors)

\* The loop of process_resumes from file i on (i counts from 0, as
\* enumerate does): a file that raises goes to processing_errors and the
\* loop goes on.
RECURSIVE ProcessResumesLoop(_, _, _, _, _)
ProcessResumesLoop(g, resume_files, i, candidates, processing_errors) ==
    IF i >= Len(resume_files)
    THEN [graph |-> g, candidates |-> candidates,
          processing_errors |-> processing_errors]
    ELSE LET out == ProcessSingleResumeFile(g, resume_files[i + 1],
                                            RunCandidateId(1, i))
         IN  IF out.raised
             THEN ProcessResumesLoop(out.graph, resume_files, i + 1,
                                     candidates,
                                     Append(processing_errors, i))
             ELSE ProcessResumesLoop(out.graph, resume_files, i + 1,
                                     Append(candidates, RunCandidateId(1, i)),
                                     processing_errors)

InitAnalyze ==
    /\ graph \in {EmptyGraph, LeftByEarlierRun}
    /\ result = NoResult
    /\ supplied = {}
    /\ links = {}
    /\ pc = <<>>

\* list_fails: the listing read of get_all_candidates_for_job raises, and
\* process_resumes answers with an HTTPException of status 500.
process_resumes ==
    /\ result = NoResult
    /\ \E required_skills \in AnalyzeJobSkills,
          resume_files \in UploadedFileLists, list_fails \in BOOLEAN :
          LET job_id == RunJobId(1)
              started == StartRun(graph, job_id, required_skills)
              looped == ProcessResumesLoop(started, resume_files, 0,
                                           <<>>, <<>>)
              g == looped.graph
          IN  \E years \in YearsRead(g) :
                 LET ranked == GetAllCandidatesForJob(g, job_id, list_fails,
                                                      {}, years)
                 IN
                 /\ graph' = IF list_fails THEN g
                             ELSE AfterScoring(g, Len(g.cands))
                 /\ result' =
                        [call   |-> "process_resumes",
                         args   |-> [job_id          |-> job_id,
                                     required_skills |-> required_skills,
                                     resume_files    |-> resume_files,
                                     list_fails      |-> list_fails],
                         status |-> ranked.status,
                         value  |->
                             IF list_fails THEN <<>>
                             ELSE [job_id |-> job_id,
                                   total_resumes |-> Len(resume_files),
                                   successfully_processed |->
                                       Len(looped.candidates),
                                   processing_errors |->
                                       looped.processing_errors,
                                   ranked_candidates |-> ranked.value]]
    /\ UNCHANGED <<supplied, links, pc>>

NextAnalyze == process_resumes

SpecAnalyze == InitAnalyze /\ [][NextAnalyze]_vars

(***************************************************************************)
(* Specification SpecDetail: _calculate_detailed_scores on its own, on     *)
(* rows as the two reads of calculate_candidate_job_match give them: the   *)
(* rows of the skills the job requires, and for some of these the row of   *)
(* the match with what the candidate holds.                                *)
(***************************************************************************)
MaxRows == 5

\* Rows of all_required: a mandatory skill that asks for years, a
\* leadership skill that is not mandatory, a skill that asks for no years
\* and carries no is_required, a skill of no importance, and two more so
\* that three of five and four of five can be matched.
RequiredRows ==
    {[skill |-> <<"p", "y">>, importance |-> 9, is_required |-> TRUE,
      min_years |-> 2],
     [skill |-> <<"l", "e", "a", "d">>, importance |-> 6,
      is_required |-> FALSE, min_years |-> 0],
     [skill |-> <<"g", "o">>, importance |-> 5, min_years |-> 0],
     [skill |-> <<"s", "q", "l">>, importance |-> 0, is_required |-> FALSE,
      min_years |-> 4],
     [skill |-> <<"c">>, importance |-> 5, is_required |-> FALSE,
      min_years |-> 4],
     [skill |-> <<"r">>, importance |-> 7, is_required |-> TRUE,
      min_years |-> 1]}

NotHeld == [held |-> FALSE]

\* What the HAS_SKILL edge of a matched skill carries.
HeldProps ==
    {[candidate_proficiency |-> 3, candidate_years |-> 1],
     [candidate_proficiency |-> 7, candidate_years |-> 0],
     [candidate_proficiency |-> 12, candidate_years |-> 5]}

DetailYears == {2, 5, 7, 10}

RequiredRowSets == {A \in SUBSET RequiredRows : Cardinality(A) <= MaxRows}

\* The row of the first read for a required skill the candidate holds.
MatchRow(required, held) ==
    [skill                 |-> required.skill,
     candidate_proficiency |-> held.candidate_proficiency,
     candidate_years       |-> held.candidate_years,
     job_importance        |-> required.importance,
     required_years        |-> required.min_years,
     is_required           |-> Get(required, "is_required", TRUE)]

\* The rows of the first read, given what the candidate holds of each
\* required skill.
MatchRows(A, holds) ==
    {MatchRow(r, holds[r]) : r \in {x \in A : holds[x] # NotHeld}}

InitDetail ==
    /\ graph = EmptyGraph
    /\ result = NoResult
    /\ supplied = {}
    /\ links = {}
    /\ pc = <<>>

calculate_detailed_scores ==
    /\ result = NoResult
    /\ \E A \in RequiredRowSets, candidate_total_years \in DetailYears :
          \E holds \in [A -> HeldProps \cup {NotHeld}] :
              LET skill_matches == SetToBag(MatchRows(A, holds))
                  all_required  == SetToBag(A)
              IN  result' =
                      [call   |-> "_calculate_detailed_scores",
                       args   |-> [skill_matches |-> skill_matches,
                                   all_required  |-> all_required,
                                   candidate_total_years |->
                                       candidate_total_years],
                       status |-> "returned",
                       value  |-> CalculateDetailedScores(
                                      skill_matches, all_required,
                                      candidate_total_years)]
    /\ UNCHANGED <<graph, supplied, links, pc>>

NextDetail == calculate_detailed_scores

SpecDetail == InitDetail /\ [][NextDetail]_vars

(***************************************************************************)
(* Properties of the scoring calls, checked under SpecScore.               *)
(***************************************************************************)
Matched == result.call = "calculate_candidate_job_match"

Ranked == result.call = "get_all_candidates_for_job"

\* C1: the match_score of whatever calculate_candidate_job_match returns,
\* the normal result or the zeroed one of the except branch, is at least 0
\* and at most 95.
C1_MatchScoreInRange ==
    Matched =>
        /\ result.status = "returned"
        /\ Leq(Num(0), result.value.match_score)
        /\ Leq(result.value.match_score, Num(95))

\* A candidate whose four sub-scores add up to more than 95 is returned
\* with exactly 95.
C1_Witness ==
    /\ Matched
    /\ result.args.failed_read = 0
    /\ result.value.match_score = Num(95)
    /\ LET b == result.value.score_breakdown
       IN  Less(Num(95), Plus(Plus(b.coverage_score, b.quality_score),
                              Plus(b.experience_score, b.critical_skills_score)))

\* C2: a result with matched_skills = 0 has match_score 0, whatever the
\* candidate's years and whatever the critical-skills default would add,
\* and also when the job requires no skill at all.
C2_NoMatchScoresZero ==
    (Matched /\ result.value.matched_skills = 0) =>
        result.value.match_score = Num(0)

\* No skill matched, and yet the experience score is 20 and the
\* critical-skills score the default 5: the sum is zeroed, not returned.
C2_Witness ==
    /\ Matched
    /\ result.args.failed_read = 0
    /\ result.value.matched_skills = 0
    /\ result.value.total_required_skills > 0
    /\ result.value.score_breakdown.experience_score = Num(20)
    /\ result.value.score_breakdown.critical_skills_score = Num(5)
    /\ result.value.match_score = Num(0)

\* C3: among the returned fields, skill_coverage is
\* 100 * matched_skills / total_required_skills rounded to one decimal, and
\* 0 when total_required_skills is 0; the zeroed result of the except
\* branch (0 matched of 1) satisfies the same relation.
C3_CoverageIsRatio ==
    Matched =>
        LET v == result.value
        IN  v.skill_coverage =
                IF v.total_required_skills = 0 THEN Num(0)
                ELSE Round1(Frac(100 * v.matched_skills,
                                 v.total_required_skills))

\* Two of three required skills matched: 66.666... is returned as 66.7.
C3_Witness ==
    /\ Matched
    /\ result.value.matched_skills = 2
    /\ result.value.total_required_skills = 3
    /\ result.value.skill_coverage = Frac(667, 10)

\* C6: the list get_all_candidates_for_job returns is in non-increasing
\* order of match_score.
C6_RankingDescending ==
    (Ranked /\ result.status = "returned") =>
        \A i \in 1..(Len(result.value) - 1) :
            Leq(result.value[i + 1].match_score, result.value[i].match_score)

\* The candidate created second scores strictly higher than the one
\* created first and is returned ahead of it.
C6_Witness ==
    /\ Ranked
    /\ result.status = "returned"
    /\ Len(result.value) >= 2
    /\ result.value[1].candidate_id = CandidateId(1)
    /\ result.value[2].candidate_id = CandidateId(0)
    /\ Less(result.value[2].match_score, result.value[1].match_score)

\* C10: when one of the three reads of calculate_candidate_job_match
\* raises, the call still returns: a result for the same candidate_id and
\* job_id with match_score 0, skill_coverage 0, matched_skills 0, an empty
\* skill_matches and total_required_skills = 1.
C10_FailedReadReturnsZeroed ==
    (Matched /\ result.args.failed_read # 0) =>
        /\ result.status = "returned"
        /\ result.value.candidate_id = result.args.candidate_id
        /\ result.value.job_id = result.args.job_id
        /\ result.value.match_score = Num(0)
        /\ result.value.skill_coverage = Num(0)
        /\ result.value.matched_skills = 0
        /\ result.value.skill_matches = EmptyBag
        /\ result.value.total_required_skills = 1

\* The second read raises for a candidate and a job that have a skill in
\* common: the match the first read found is not returned.
C10_Witness ==
    /\ Matched
    /\ result.args.failed_read = 2
    /\ SkillMatchQuery(graph, result.args.candidate_id,
                       result.args.job_id) # EmptyBag
    /\ result.value.skill_matches = EmptyBag

\* C11: when the scoring of one candidate fails, get_all_candidates_for_job
\* still scores every other candidate, and the failing candidate is
\* skipped: the list holds an entry for each candidate whose scoring did
\* not fail and no entry for one whose scoring did.
C11_FailingCandidateSkipped ==
    (Ranked /\ result.status = "returned") =>
        LET candidates == ListCandidates(graph)
            scored == (1..Len(candidates)) \ result.args.fails
        IN  /\ \A i \in scored :
                   \E k \in 1..Len(result.value) :
                       result.value[k].candidate_id = candidates[i]
            /\ Len(result.value) = Cardinality(scored)

\* C12: with proficiency in 1..10, years >= 0 and importance in 1..10, the
\* four sub-scores of _calculate_detailed_scores (coverage, quality,
\* experience level, critical skills), as computed and before the boosts
\* and the caps, add up to at most 100.
C12_SubScoresAtMost100 ==
    (/\ Matched
     /\ result.args.failed_read = 0
     /\ result.value.total_required_skills > 0) =>
        LET v == result.value
            coverage_score ==
                CoverageScore(SkillCoverage(v.matched_skills,
                                            v.total_required_skills))
            quality_score == QualityScore(v.skill_matches)
            experience_score ==
                ExperienceScore(v.score_breakdown.candidate_years)
            critical_score ==
                CriticalScore(v.skill_matches,
                              AllRequiredQuery(graph, result.args.job_id))
        IN  Leq(Plus(Plus(coverage_score, quality_score),
                     Plus(experience_score, critical_score)), Num(100))

\* The final score of a returned match as it stands after the senior boost
\* and the leadership bonus, before the caps.
BeforeCaps ==
    LET v == result.value
        years == v.score_breakdown.candidate_years
        skill_coverage == SkillCoverage(v.matched_skills,
                                        v.total_required_skills)
        summed ==
            Plus(Plus(CoverageScore(skill_coverage),
                      QualityScore(v.skill_matches)),
                 Plus(ExperienceScore(years),
                      CriticalScore(v.skill_matches,
                                    AllRequiredQuery(graph,
                                                     result.args.job_id))))
    IN  LeadershipBonus(SeniorBoost(summed, skill_coverage, years),
                        v.skill_matches, years)

\* A match that was computed, with at least one skill matched.
MatchedSome ==
    /\ Matched
    /\ result.args.failed_read = 0
    /\ result.value.matched_skills > 0

\* C13: with matched_count > 0, a result with skill_coverage < 20 has
\* match_score <= 30 and one with 20 <= skill_coverage < 40 has
\* match_score <= 55, whatever the senior boost and the leadership bonus
\* added; the cap is a ceiling applied after them, so a value already under
\* the cap is returned as computed.
C13_LowCoverageCeilings ==
    (MatchedSome /\ Less(result.value.skill_coverage, Num(40))) =>
        LET v == result.value
            cap == IF Less(v.skill_coverage, Num(20)) THEN Num(30)
                   ELSE Num(55)
        IN  /\ Leq(v.match_score, cap)
            /\ Leq(BeforeCaps, cap) => v.match_score = Round1(BeforeCaps)

\* Two skills of six matched, one of them a leadership skill of a
\* candidate of seven years: the bonus of 5 is added, the score stands
\* above 55 and 55 is returned.
C13_Witness ==
    /\ MatchedSome
    /\ ~Less(result.value.skill_coverage, Num(20))
    /\ Less(result.value.skill_coverage, Num(40))
    /\ LeadershipBonus(Num(0), result.value.skill_matches,
                       result.value.score_breakdown.candidate_years) = Num(5)
    /\ Less(Num(55), BeforeCaps)
    /\ result.value.match_score = Num(55)

\* The sum of the four sub-scores of a returned match.
Summed ==
    LET v == result.value
    IN  Plus(Plus(CoverageScore(SkillCoverage(v.matched_skills,
                                              v.total_required_skills)),
                  QualityScore(v.skill_matches)),
             Plus(ExperienceScore(v.score_breakdown.candidate_years),
                  CriticalScore(v.skill_matches,
                                AllRequiredQuery(graph, result.args.job_id))))

\* The final score of a returned match after the senior boost, before the
\* leadership bonus.
Boosted ==
    LET v == result.value
    IN  SeniorBoost(Summed,
                    SkillCoverage(v.matched_skills, v.total_required_skills),
                    v.score_breakdown.candidate_years)

LeadershipName(name) ==
    \/ Contains(name, <<"l", "e", "a", "d">>)
    \/ Contains(name, <<"s", "e", "n", "i", "o", "r">>)
    \/ Contains(name, <<"m", "a", "n", "a", "g", "e">>)

\* The Skill nodes the candidate of the call holds, and those the job of
\* the call requires.
HeldSkills ==
    {e.to : e \in {h \in BagToSet(graph.hasSkill) :
                      h.from \in MatchCandidate(graph,
                                                result.args.candidate_id)}}

RequiredSkills ==
    {e.to : e \in {r \in BagToSet(graph.requiresSkill) :
                      r.from \in MatchJob(graph, result.args.job_id)}}

\* C26: the score returned is the boosted sum plus a flat 5, then capped,
\* exactly when the candidate has at least 5 total years and some skill
\* that the candidate holds and the job requires has 'lead', 'senior' or
\* 'manage' in its name; otherwise it is the boosted sum, capped.  A skill
\* the candidate holds and the job does not require adds nothing.
C26_LeadershipBonus ==
    MatchedSome =>
        LET v == result.value
            bonus == /\ v.score_breakdown.candidate_years >= 5
                     /\ \E s \in HeldSkills \cap RequiredSkills :
                            LeadershipName(graph.skills[s].name)
            final_score == IF bonus THEN Plus(Boosted, Num(5)) ELSE Boosted
        IN  v.match_score =
                Round1(ApplyCaps(final_score, v.matched_skills,
                                 SkillCoverage(v.matched_skills,
                                               v.total_required_skills)))

\* A candidate of at least 5 years holds a leadership skill that the job
\* does not require and matches another skill; 5 more points would show
\* in the score, and the score returned is the boosted sum.
C26_Witness ==
    /\ MatchedSome
    /\ result.value.score_breakdown.candidate_years >= 5
    /\ \E s \in HeldSkills \ RequiredSkills :
           LeadershipName(graph.skills[s].name)
    /\ ~ \E s \in HeldSkills \cap RequiredSkills :
             LeadershipName(graph.skills[s].name)
    /\ ~Less(result.value.skill_coverage, Num(40))
    /\ Less(Plus(Boosted, Num(5)), Num(95))
    /\ result.value.match_score = Round1(Boosted)

\* C30: a match that was computed (not the zeroed result of the except
\* branch) has matched_skills <= total_required_skills, and so a
\* skill_coverage from 0 to 100.
C30_MatchedAtMostRequired ==
    (Matched /\ result.args.failed_read = 0) =>
        /\ result.value.matched_skills <= result.value.total_required_skills
        /\ Leq(Num(0), result.value.skill_coverage)
        /\ Leq(result.value.skill_coverage, Num(100))

\* The same for a candidate id and a job id that one node each carries.
MatchedAtMostRequiredOfOneNode ==
    (/\ Matched
     /\ result.args.failed_read = 0
     /\ Cardinality(MatchCandidate(graph, result.args.candidate_id)) <= 1
     /\ Cardinality(MatchJob(graph, result.args.job_id)) <= 1) =>
        /\ result.value.matched_skills <= result.value.total_required_skills
        /\ Leq(result.value.skill_coverage, Num(100))

\* Every entry of a ranking is what calculate_candidate_job_match returns
\* for that candidate on its own, with the years its lookup can give and
\* with or without a failing read.
EntriesScoredAlone ==
    (Ranked /\ result.status = "returned") =>
        \A k \in 1..Len(result.value) :
            LET candidate_id == result.value[k].candidate_id
            IN  \E total_years \in CandidateYearsQuery(graph, candidate_id),
                   failed_read \in 0..1 :
                    result.value[k] =
                        CalculateCandidateJobMatch(graph, candidate_id,
                                                   result.args.job_id,
                                                   failed_read,
                                                   total_years).value

\* C18: scoring only reads.  calculate_candidate_job_match and
\* get_all_candidates_for_job leave every node, relationship and attribute
\* of the graph as it was, so the score of a candidate is the same whether
\* or not, and in whatever order, other candidates were scored before it.
C18_ScoringOnlyReads ==
    (result # NoResult) =>
        /\ graph = result.args.before
        /\ EntriesScoredAlone

\* A ranking of two candidates, both with a skill matched: the second was
\* scored after the first.
C18_Witness ==
    /\ Ranked
    /\ result.status = "returned"
    /\ Len(result.value) = 2
    /\ \A k \in 1..2 : result.value[k].matched_skills > 0
    /\ result.value[1].candidate_id # result.value[2].candidate_id

(***************************************************************************)
(* Properties of the ingestion calls, checked under Spec.                  *)
(***************************************************************************)
\* The levels sent to the store under the name of Skill node s.
LevelsSupplied(s) ==
    {p[2] : p \in {q \in supplied : q[1] = graph.skills[s].name}}

\* C4: after any sequence of create_skill_nodes calls the level of a Skill
\* node is the greatest of the levels supplied for its name, in whatever
\* order they came (3 then 7, or 7 then 3, leave 7): a later call with a
\* lower level does not lower it.
C4_LevelIsGreatestSupplied ==
    \A s \in 1..Len(graph.skills) :
        /\ graph.skills[s].level \in LevelsSupplied(s)
        /\ \A level \in LevelsSupplied(s) : level <= graph.skills[s].level

\* The levels 3 and 7 have both been supplied for one skill, and it has 7.
C4_Witness ==
    \E s \in 1..Len(graph.skills) :
        /\ {3, 7} \subseteq LevelsSupplied(s)
        /\ graph.skills[s].level = 7

\* The relationships of one type agree with the link calls made: a pair of
\* nodes no call has linked has none, a linked pair has exactly one and it
\* carries the properties of the last call.
AgreesWithLinks(edges, type, froms, tos) ==
    \A from \in froms, to \in tos :
        LET last == {l \in links :
                        l.type = type /\ l.from = from /\ l.to = to}
            between == {e \in BagToSet(edges) : e.from = from /\ e.to = to}
        IN  IF last = {} THEN between = {}
            ELSE /\ between = {[from |-> from, to |-> to, props |-> l.props] :
                                   l \in last}
                 /\ \A e \in between : edges[e] = 1

\* C5: however many times link_candidate_skills has linked a candidate and
\* a skill, there is exactly one HAS_SKILL relationship between them and
\* its proficiency and years_experience are those of the most recent call;
\* likewise for link_job_requirements and the one REQUIRES_SKILL
\* relationship of a job and a skill.
C5_OneEdgeWithLastProperties ==
    /\ AgreesWithLinks(graph.hasSkill, "HAS_SKILL",
                       1..Len(graph.cands), 1..Len(graph.skills))
    /\ AgreesWithLinks(graph.requiresSkill, "REQUIRES_SKILL",
                       1..Len(graph.jobs), 1..Len(graph.skills))

\* A candidate and a skill, and a job and a skill, each linked more than
\* once, the last time with properties other than the first.
C5_Witness ==
    /\ \E l \in links :
           /\ l.type = "HAS_SKILL" /\ l.relinked
           /\ l.props.proficiency = 3
           /\ graph.skills[l.to].level = 7
    /\ \E l \in links : l.type = "REQUIRES_SKILL" /\ l.relinked

\* The canonical names of the skills the calls of Spec name.
py == <<"p", "y">>

go == <<"g", "o">>

\* C7: the graph holds at most one Skill node per canonical name, the raw
\* name lower-cased and trimmed: spellings that differ only in case or in
\* the whitespace around them ("Py", "py ") come to the same node, and the
\* relationships linked under either spelling attach to it.  In Spec every
\* candidate skill is a spelling of py, and so is every required skill
\* with a stated importance; the required skill without one is go.
C7_OneNodePerCanonicalName ==
    /\ \A s1, s2 \in 1..Len(graph.skills) :
           graph.skills[s1].name = graph.skills[s2].name => s1 = s2
    /\ \A s \in 1..Len(graph.skills) : graph.skills[s].name \in {py, go}
    /\ \A e \in BagToSet(graph.hasSkill) : graph.skills[e.to].name = py
    /\ \A e \in BagToSet(graph.requiresSkill) :
           graph.skills[e.to].name =
               IF e.props.importance \in {9, 4} THEN py ELSE go

\* Both spellings have been supplied (3 comes with "Py", 7 with "py "),
\* there is one node, and a relationship linked as "py " is attached to it.
C7_Witness ==
    /\ {<<py, 3>>, <<py, 7>>} \subseteq supplied
    /\ Cardinality({s \in 1..Len(graph.skills) : graph.skills[s].name = py}) = 1
    /\ \E e \in BagToSet(graph.hasSkill) :
           e.props.proficiency = 7 /\ graph.skills[e.to].name = py

\* C8: link_candidate_skills or link_job_requirements applied twice with
\* the same id and the same skills leaves the graph, its nodes, its
\* relationships and their properties, as applying it once does.
C8_LinkTwiceIsLinkOnce ==
    /\ \A candidate_id \in CandIds, skills \in Batches(CandidateSkillDicts) :
           LET once == LinkCandidateSkills(graph, candidate_id, skills, {})
           IN  LinkCandidateSkills(once, candidate_id, skills, {}) = once
    /\ \A job_id \in JobIds, required_skills \in Batches(JobSkillDicts) :
           LET once == LinkJobRequirements(graph, job_id, required_skills, {})
           IN  LinkJobRequirements(once, job_id, required_skills, {}) = once

\* The HAS_SKILL relationships of the graph are those one call of
\* link_candidate_skills leaves, and a pair has been linked more than once:
\* the call has been applied, and applied again.
C8_Witness ==
    /\ graph.hasSkill # EmptyBag
    /\ \E l \in links : l.type = "HAS_SKILL" /\ l.relinked
    /\ \E candidate_id \in CandIds, skills \in Batches(CandidateSkillDicts) :
           LinkCandidateSkills([graph EXCEPT !.hasSkill = EmptyBag],
                               candidate_id, skills, {}) = graph

\* Batches of up to two entries, and what they name.
TwoEntryBatches(S) == UNION {[1..n -> S] : n \in 0..2}

NamedIn(skills) ==
    {NormalizeName(skills[k]) : k \in 1..Len(skills)} \ {<<>>}

NodesWithNameIn(g, names) ==
    {s \in 1..Len(g.skills) : g.skills[s].name \in names}

LinkedPairs(edges) == {<<e.from, e.to>> : e \in BagToSet(edges)}

SameNodes(g1, g2) ==
    /\ g1.jobs = g2.jobs
    /\ g1.cands = g2.cands
    /\ g1.skills = g2.skills
    /\ g1.exps = g2.exps

\* C23: link_candidate_skills and link_job_requirements create no node,
\* and link exactly the pairs whose two nodes are in the graph: an entry
\* whose Skill node is absent, or every entry when the Candidate or the Job
\* is absent, adds no relationship, and the other entries of the batch are
\* linked all the same.
C23_LinkNeedsBothEndpoints ==
    /\ \A candidate_id \in CandIds,
          skills \in TwoEntryBatches(CandidateSkillDicts) :
           LET after == LinkCandidateSkills(graph, candidate_id, skills, {})
               candidates == {c \in 1..Len(graph.cands) :
                                 graph.cands[c].id = candidate_id}
           IN  /\ SameNodes(after, graph)
               /\ after.requiresSkill = graph.requiresSkill
               /\ after.hasExperience = graph.hasExperience
               /\ LinkedPairs(after.hasSkill)
                      = LinkedPairs(graph.hasSkill)
                        \cup (candidates
                              \X NodesWithNameIn(graph, NamedIn(skills)))
    /\ \A job_id \in JobIds,
          required_skills \in TwoEntryBatches(JobSkillDicts) :
           LET after == LinkJobRequirements(graph, job_id, required_skills, {})
               jobs == {j \in 1..Len(graph.jobs) : graph.jobs[j].id = job_id}
           IN  /\ SameNodes(after, graph)
               /\ after.hasSkill = graph.hasSkill
               /\ after.hasExperience = graph.hasExperience
               /\ LinkedPairs(after.requiresSkill)
                      = LinkedPairs(graph.requiresSkill)
                        \cup (jobs
                              \X NodesWithNameIn(graph,
                                                 NamedIn(required_skills)))

\* A graph with a job and the skill py and neither the skill go nor a
\* candidate: it is the graph link_job_requirements leaves for a batch that
\* names go, then py, with the job linked to py alone, and
\* link_candidate_skills for py leaves it as it is.
C23_Witness ==
    /\ MatchSkill(graph, go) = {}
    /\ MatchSkill(graph, py) # {}
    /\ graph.cands = <<>>
    /\ \E l \in links : l.type = "REQUIRES_SKILL"
    /\ \E job_id \in JobIds,
          required_skills \in TwoEntryBatches(JobSkillDicts) :
           /\ Len(required_skills) = 2
           /\ NormalizeName(required_skills[1]) = go
           /\ NormalizeName(required_skills[2]) = py
           /\ LinkedPairs(graph.requiresSkill)
                  = MatchJob(graph, job_id) \X MatchSkill(graph, py)
           /\ LinkJobRequirements([graph EXCEPT !.requiresSkill = EmptyBag],
                                  job_id, required_skills, {}) = graph
    /\ \E candidate_id \in CandIds,
          skills \in TwoEntryBatches(CandidateSkillDicts) :
           /\ NamedIn(skills) = {py}
           /\ LinkCandidateSkills(graph, candidate_id, skills, {}) = graph

\* C9: create_job_node, create_candidate_node and create_experience_nodes
\* can be retried: a second call with the same arguments leaves the graph
\* as the first left it, with no second Job, Candidate or Experience node
\* and no second HAS_EXPERIENCE relationship.
C9_CreateTwiceIsCreateOnce ==
    /\ \A job_data \in JobDatas :
           LET once == CreateJobNode(graph, job_data).graph
           IN  CreateJobNode(once, job_data).graph = once
    /\ \A candidate_data \in CandidateDatas :
           LET once == CreateCandidateNode(graph, candidate_data).graph
           IN  CreateCandidateNode(once, candidate_data).graph = once
    /\ \A candidate_id \in CandIds, experiences \in Batches(ExperienceDicts) :
           LET once == CreateExperienceNodes(graph, candidate_id,
                                             experiences, {}).graph
           IN  CreateExperienceNodes(once, candidate_id, experiences,
                                     {}).graph = once

\* What the reads of the service find in graph g: the rows of the
\* matched-skill join, of the required-skills scan and of the candidate
\* lookup, for every candidate and job, and the list of the ranking.
NothingToRead(g) ==
    /\ \A candidate_id \in CandIds, job_id \in JobIds :
           /\ SkillMatchQuery(g, candidate_id, job_id) = EmptyBag
           /\ AllRequiredQuery(g, job_id) = EmptyBag
           /\ MatchCandidate(g, candidate_id) = {}
    /\ \A job_id \in JobIds :
           GetAllCandidatesForJob(g, job_id, FALSE, {}, <<>>) =
               [status |-> "returned", value |-> <<>>]

\* C17: whatever the graph holds, after clear_database it has no node and
\* no relationship: the matched-skill join, the required-skills scan and
\* the candidate lookup return nothing and get_all_candidates_for_job
\* returns the empty list.
C17_ClearLeavesNothing ==
    LET cleared == ClearDatabase(graph)
    IN  /\ NodeCount(cleared) = 0
        /\ cleared.hasSkill = EmptyBag
        /\ cleared.requiresSkill = EmptyBag
        /\ cleared.hasExperience = EmptyBag
        /\ NothingToRead(cleared)

\* A graph in which the join, the scan and the lookup all find rows, and
\* in which they find none once it is cleared.
C17_Witness ==
    /\ \E candidate_id \in CandIds, job_id \in JobIds :
           /\ SkillMatchQuery(graph, candidate_id, job_id) # EmptyBag
           /\ AllRequiredQuery(graph, job_id) # EmptyBag
           /\ MatchCandidate(graph, candidate_id) # {}
    /\ NothingToRead(ClearDatabase(graph))

(***************************************************************************)
(* Properties of what the writing calls return, checked under SpecCall.    *)
(***************************************************************************)
\* The k-th smallest member of a set of positions.
Nth(positions, k) ==
    CHOOSE i \in positions : Cardinality({j \in positions : j < i}) = k - 1

\* The entries of a list at the given positions, in the order of the list.
Kept(list, positions) ==
    [k \in 1..Cardinality(positions) |-> list[Nth(positions, k)]]

\* C14: create_skill_nodes returns the canonical names of the entries it
\* processed, in input order.  An entry whose name is empty or blank once
\* normalized creates no Skill node and is not in the list; an entry whose
\* store write fails is not in the list either, and the entries after it
\* are still processed.
C14_ReturnsNamesProcessed ==
    result.call = "create_skill_nodes" =>
        LET skills == result.args.skills
            names == [i \in 1..Len(skills) |-> NormalizeName(skills[i])]
            processed == {i \in 1..Len(skills) :
                             names[i] # <<>> /\ i \notin result.args.fails}
            Names(g) == {g.skills[s].name : s \in 1..Len(g.skills)}
        IN  /\ result.value = Kept(names, processed)
            /\ Names(graph) =
                   Names(result.args.before) \cup {names[i] : i \in processed}
            /\ <<>> \notin Names(graph)

\* The write of the first entry fails and the second entry is processed: a
\* node is created for it and its name alone is returned.
C14_Witness ==
    /\ result.call = "create_skill_nodes"
    /\ Len(result.args.skills) = 2
    /\ result.args.fails = {1}
    /\ NormalizeName(result.args.skills[1]) = <<"p", "y">>
    /\ result.value = <<(<<"g", "o">>)>>
    /\ Len(graph.skills) = Len(result.args.before.skills) + 1

\* C15: on an existing candidate, create_experience_nodes with n entries
\* creates one Experience node with the id of the candidate and the index
\* i, and one HAS_EXPERIENCE relationship from the candidate to it, for
\* each index i from 0 to n-1 whose write does not fail; a failing entry
\* creates nothing and the entries after it are created; the list returned
\* holds the ids created.
C15_OneExperiencePerEntry ==
    (/\ result.call = "create_experience_nodes"
     /\ MatchCandidate(result.args.before, result.args.candidate_id) # {}) =>
        LET a == result.args
            ids == [i \in 1..Len(a.experiences) |-> <<a.candidate_id, i - 1>>]
            made == (1..Len(a.experiences)) \ a.fails
            old == Len(a.before.exps)
        IN  /\ result.value = Kept(ids, made)
            /\ Len(graph.exps) = old + Cardinality(made)
            /\ SubSeq(graph.exps, 1, old) = a.before.exps
            /\ \A k \in 1..Cardinality(made) :
                   /\ graph.exps[old + k].id = ids[Nth(made, k)]
                   /\ \E c \in MatchCandidate(graph, a.candidate_id) :
                          EdgeCount(graph.hasExperience, c, old + k) = 1
            /\ BagCardinality(graph.hasExperience) =
                   BagCardinality(a.before.hasExperience) + Cardinality(made)

(***************************************************************************)
(* Properties of the profile extraction, checked under SpecExtract.        *)
(***************************************************************************)
\* The years of the experience entries of a profile, added up.
RECURSIVE YearsOf(_)
YearsOf(experience) ==
    IF experience = <<>> THEN 0
    ELSE Head(experience).years_experience + YearsOf(Tail(experience))

Quiescent == \A w \in Writers : pc[w] = Idle

GreatestSupplied(skill_name) ==
    CHOOSE level \in {p[2] : p \in {q \in supplied : q[1] = skill_name}} :
        \A p \in supplied : p[1] = skill_name => p[2] <= level

\* C19: once the concurrent create_skill_nodes calls have all returned,
\* every skill name they sent is held by exactly one Skill node, and that
\* node's level is the greatest level sent under the name.
C19_ConcurrentMergeIsAtomic ==
    Quiescent =>
        \A p \in supplied :
            /\ Cardinality(MatchSkill(graph, p[1])) = 1
            /\ \A s \in MatchSkill(graph, p[1]) :
                  graph.skills[s].level = GreatestSupplied(p[1])

(***************************************************************************)
(* Properties of overlapping analysis runs, checked under SpecRuns.        *)
(***************************************************************************)
\* Run r has created its Job node and has not yet computed its ranking.
InProgress(r) == pc[r] # Idle /\ pc[r].at = "reading"

\* A step in which clear_database executes: a run leaves its first line.
Wipes == \E q \in Runs : pc[q] = Idle /\ pc'[q] # Idle

\* C20: while a process_resumes run is between the creation of its Job
\* node and the computation of its ranking, no step executes
\* clear_database, whatever the other runs are doing.
C20_NoWipeDuringRun == [][(\E r \in Runs : InProgress(r)) => ~Wipes]_vars

\* The run a job id or a candidate id was made by.
RunOf(id) == id[2]

\* C29: every entry of the ranking a run returns is the candidate of a
\* resume of that same run; no candidate written by another run, earlier
\* or overlapping, is in it.
C29_RankingHoldsOwnCandidatesOnly ==
    (result # NoResult /\ result.call = "process_resumes"
        /\ result.status = "returned") =>
        \A k \in 1..Len(result.value) :
            RunOf(result.value[k].candidate_id) = RunOf(result.args.job_id)

(***************************************************************************)
(* Properties of _calculate_detailed_scores, checked under SpecDetail.     *)
(***************************************************************************)
\* A call that went past the early return for a job that requires nothing.
Detailed ==
    /\ result.call = "_calculate_detailed_scores"
    /\ result.args.all_required # EmptyBag

DetailMatched == BagCardinality(result.args.skill_matches)

DetailCoverage ==
    Frac(100 * DetailMatched, BagCardinality(result.args.all_required))

\* The four sub-scores, summed.
DetailSummed ==
    Plus(Plus(CoverageScore(DetailCoverage),
              QualityScore(result.args.skill_matches)),
         Plus(ExperienceScore(result.args.candidate_total_years),
              CriticalScore(result.args.skill_matches,
                            result.args.all_required)))

\* The score returned when the summed sub-scores are multiplied by factor
\* before the leadership bonus and the caps.
ScoreWithFactor(factor) ==
    Round1(ApplyCaps(LeadershipBonus(Times(DetailSummed, factor),
                                     result.args.skill_matches,
                                     result.args.candidate_total_years),
                     DetailMatched, DetailCoverage))

\* C25: the summed sub-scores are multiplied by 1.15 when skill_coverage is
\* at least 80 and the candidate has at least 7 total years, by 1.10 when
\* skill_coverage is at least 60 and under 80 with at least 7 years, and
\* by nothing when the coverage is under 60 or the years are fewer than 7.
C25_SeniorMultiplier ==
    Detailed =>
        LET senior == /\ Leq(Num(60), DetailCoverage)
                      /\ result.args.candidate_total_years >= 7
            factor == IF ~senior THEN Num(1)
                      ELSE IF Leq(Num(80), DetailCoverage)
                      THEN Frac(115, 100)
                      ELSE Frac(110, 100)
        IN  result.value.final_score = ScoreWithFactor(factor)

\* Three of five required skills matched, exactly 60, by a candidate of
\* seven years or more: the score returned carries the factor 1.10, and is
\* not what it would be without it.
C25_Witness ==
    /\ Detailed
    /\ DetailCoverage = Num(60)
    /\ result.args.candidate_total_years >= 7
    /\ result.value.final_score = ScoreWithFactor(Frac(110, 100))
    /\ result.value.final_score # ScoreWithFactor(Num(1))

\* The rows of all_required that count as critical, and those of them
\* whose skill is among the matched skills.
FlaggedRequired ==
    {r \in BagToSet(result.args.all_required) :
        "is_required" \in DOMAIN r => r.is_required}

FlaggedMatched ==
    {r \in FlaggedRequired :
        \E m \in BagToSet(result.args.skill_matches) : m.skill = r.skill}

\* C27: the critical-skills sub-score is 5 times the fraction of the rows
\* flagged required (or carrying no flag) whose skill is matched, and the
\* full 5 when the job requires skills and flags none of them; this value
\* is what the breakdown reports, rounded, and what enters the final score.
C27_CriticalSkillsScore ==
    Detailed =>
        LET critical_score ==
                IF FlaggedRequired = {} THEN Num(5)
                ELSE Frac(5 * Cardinality(FlaggedMatched),
                          Cardinality(FlaggedRequired))
            years == result.args.candidate_total_years
            summed ==
                Plus(Plus(CoverageScore(DetailCoverage),
                          QualityScore(result.args.skill_matches)),
                     Plus(ExperienceScore(years), critical_score))
        IN  /\ result.value.breakdown.critical_skills_score =
                   Round1(critical_score)
            /\ result.value.final_score =
                   Round1(ApplyCaps(
                       LeadershipBonus(
                           SeniorBoost(summed, DetailCoverage, years),
                           result.args.skill_matches, years),
                       DetailMatched, DetailCoverage))

\* A job whose skills are all flagged not required, one of them matched:
\* the sub-score is the full 5.
C27_Witness ==
    /\ Detailed
    /\ FlaggedRequired = {}
    /\ DetailMatched > 0
    /\ result.value.breakdown.critical_skills_score = Num(5)
    /\ Less(result.value.final_score, Num(55))

\* exp_factor and prof_factor of a matched row, as fractions.
StatedExpFactor(m) ==
    IF m.required_years > 0
    THEN LET ratio == Frac(m.candidate_years, m.required_years)
         IN  IF Less(ratio, Frac(6, 10)) THEN Frac(6, 10)
             ELSE IF Less(Frac(22, 10), ratio) THEN Frac(22, 10)
             ELSE ratio
    ELSE LET half == Frac(m.candidate_years, 2)
         IN  IF Less(Frac(18, 10), half) THEN Frac(18, 10) ELSE half

StatedProfFactor(m) ==
    LET tenth == IF m.candidate_proficiency >= 10 THEN Num(1)
                 ELSE Frac(m.candidate_proficiency, 10)
    IN  IF m.candidate_proficiency >= 7
        THEN Times(tenth, Frac(11, 10))
        ELSE tenth

\* The sum of importance * prof_factor * exp_factor over the matched rows,
\* and the sum of their importance.
StatedWeightedSum ==
    TotalFrac([m \in BagToSet(result.args.skill_matches) |->
                  Times(Num(m.job_importance),
                        Times(StatedProfFactor(m), StatedExpFactor(m)))])

StatedWeight ==
    Total([m \in BagToSet(result.args.skill_matches) |-> m.job_importance])

Analyzed == result # NoResult /\ result.call = "process_resumes"

Uploaded == result.args.resume_files

\* The files, by their place in the upload counted from 0, that the run
\* could not process, and those it could.
FailedFiles == {i \in 0..(Len(Uploaded) - 1) : Uploaded[i + 1].kind # "read"}

ReadFiles == {i \in 0..(Len(Uploaded) - 1) : Uploaded[i + 1].kind = "read"}

InSeq(x, seq) == \E k \in 1..Len(seq) : seq[k] = x

Ascending(seq) == \A k \in 1..(Len(seq) - 1) : seq[k] < seq[k + 1]

\* C21: a file that cannot be processed (turned away, without text, or
\* stopped by a store error) is recorded in processing_errors and stops
\* neither the files after it nor the ranking: the run returns, the files
\* in processing_errors are exactly the failed ones, once each,
\* successfully_processed counts exactly the others, the two add up to
\* total_resumes, and every file that could be processed has its Candidate
\* node and its place in the ranking.
C21_FailedResumeIsRecorded ==
    (Analyzed /\ ~result.args.list_fails) =>
        /\ result.status = "returned"
        /\ result.value.total_resumes = Len(Uploaded)
        /\ \A i \in FailedFiles : InSeq(i, result.value.processing_errors)
        /\ \A i \in ReadFiles : ~InSeq(i, result.value.processing_errors)
        /\ Ascending(result.value.processing_errors)
        /\ result.value.successfully_processed = Cardinality(ReadFiles)
        /\ result.value.successfully_processed
               + Len(result.value.processing_errors)
           = result.value.total_resumes
        /\ \A i \in ReadFiles :
              /\ MatchCandidate(graph, RunCandidateId(1, i)) # {}
              /\ \E k \in 1..Len(result.value.ranked_candidates) :
                    result.value.ranked_candidates[k].candidate_id
                        = RunCandidateId(1, i)

\* A file stopped by a store error, then one that is processed and ranked.
C21_Witness ==
    /\ Analyzed
    /\ ~result.args.list_fails
    /\ Len(Uploaded) = 2
    /\ Uploaded[1].kind = "store error"
    /\ Uploaded[2].kind = "read"
    /\ result.value.processing_errors = <<0>>
    /\ result.value.successfully_processed = 1
    /\ Len(result.value.ranked_candidates) = 1


\* The proficiency the edge is to carry for a proficiency the model gave:
\* above 10 it is 10, under 1 or missing it is 1.
StoredProficiency(skill) ==
    IF "proficiency" \notin DOMAIN skill THEN 1
    ELSE IF skill.proficiency > 10 THEN 10
    ELSE IF skill.proficiency < 1 THEN 1
    ELSE skill.proficiency

\* The HAS_SKILL relationships from the candidate of file i to the skill
\* with this name.
HasSkillEdges(i, skill_name) ==
    {e \in BagToSet(graph.hasSkill) :
        /\ e.from \in MatchCandidate(graph, RunCandidateId(1, i))
        /\ e.to \in MatchSkill(graph, skill_name)}

\* C22: after an analysis run every HAS_SKILL relationship in the store
\* carries a proficiency from 1 to 10, and the skill of a processed resume
\* carries the proficiency the model gave, brought to 10 when above 10 and
\* to 1 when under 1 or missing.
C22_ProficiencyFromOneToTen ==
    Analyzed =>
        /\ \A e \in BagToSet(graph.hasSkill) : e.props.proficiency \in 1..10
        /\ \A i \in ReadFiles :
              LET response == Uploaded[i + 1].response
              IN  response # Unusable =>
                     \A k \in 1..Len(response.skills) :
                        LET edges == HasSkillEdges(
                                         i, NormalizeName(response.skills[k]))
                        IN  /\ edges # {}
                            /\ \A e \in edges :
                                  e.props.proficiency
                                      = StoredProficiency(response.skills[k])

\* One run stores a given proficiency of 11 as 10 and, for a second
\* resume, a given 0 and a missing one as 1.
C22_Witness ==
    /\ Analyzed
    /\ Len(Uploaded) = 2
    /\ \A i \in {0, 1} : /\ Uploaded[i + 1].kind = "read"
                         /\ Uploaded[i + 1].response # Unusable
    /\ Uploaded[1].response.skills[1].proficiency = 11
    /\ \E e \in HasSkillEdges(0, <<"p", "y">>) : e.props.proficiency = 10
    /\ Uploaded[2].response.skills[1].proficiency = 0
    /\ \E e \in HasSkillEdges(1, <<"g", "o">>) : e.props.proficiency = 1
    /\ "proficiency" \notin DOMAIN Uploaded[2].response.skills[2]
    /\ \E e \in HasSkillEdges(1, <<"l", "e", "a", "d">>) :
          e.props.proficiency = 1


\* The skills extract_candidate_profile gave for file i.
ExtractedSkills(i) ==
    ExtractCandidateProfile(Uploaded[i + 1].response,
                            Uploaded[i + 1].found_skills).value.skills

\* The REQUIRES_SKILL relationships from the job of the run to the skill
\* with this name.
RequiresSkillEdges(skill_name) ==
    {e \in BagToSet(graph.requiresSkill) :
        /\ e.from \in MatchJob(graph, result.args.job_id)
        /\ e.to \in MatchSkill(graph, skill_name)}

\* C24: within one run the nodes are written before the relationships
\* that need them, so that after the run every required skill of the job
\* with a name that is not blank has its REQUIRES_SKILL relationship from
\* the job, and every skill of a processed resume with such a name has its
\* HAS_SKILL relationship from the candidate of that resume.
C24_IngestionOrderGivesEveryEdge ==
    Analyzed =>
        /\ \A k \in 1..Len(result.args.required_skills) :
              LET skill_name == NormalizeName(result.args.required_skills[k])
              IN  skill_name # <<>> => RequiresSkillEdges(skill_name) # {}
        /\ \A i \in ReadFiles :
              \A k \in 1..Len(ExtractedSkills(i)) :
                 LET skill_name == NormalizeName(ExtractedSkills(i)[k])
                 IN  skill_name # <<>> => HasSkillEdges(i, skill_name) # {}

\* A job with three entries, one of them blank, that name one skill, and
\* a resume with that skill and one new to the store: the job and the
\* candidate are linked to every skill named.
C24_Witness ==
    /\ Analyzed
    /\ Len(result.args.required_skills) = 3
    /\ RequiresSkillEdges(<<"p", "y">>) # {}
    /\ RequiresSkillEdges(<<>>) = {}
    /\ Len(Uploaded) = 1
    /\ Uploaded[1].kind = "read"
    /\ Len(ExtractedSkills(0)) = 2
    /\ HasSkillEdges(0, <<"p", "y">>) # {}
    /\ HasSkillEdges(0, <<"s", "q", "l">>) # {}
    /\ Len(graph.skills) = 2

====
